---- MODULE Spec2Model ----
(***************************************************************************)
(* TalentFlow: the candidate-stage pipeline.                               *)
(*                                                                         *)
(* The model covers the persistent store (db.candidates, db.timeline), the *)
(* two react-query caches that the Kanban views render from, the drag      *)
(* session of the two boards (CandidatesKanban, and KanbanBoard hosted by  *)
(* CandidatesList), and every path that writes a candidate's stage:        *)
(*   - CandidatesKanban.handleDragEnd -> updateCandidateStage (optimistic) *)
(*   - KanbanBoard.handleDragOver -> CandidatesList.handleStageDrop        *)
(*   - useCandidates.moveCandidate / addCandidate                          *)
(*   - PATCH /api/candidates/:id and POST /api/candidates (mock API)       *)
(*   - useCandidates.deleteCandidate, which removes a row                  *)
(* and the read side of the mock API, GET /api/candidates (filters and     *)
(* pagination).                                                            *)
(* One action is one turn of the event loop: a handler runs up to its next *)
(* await on storage or on the simulated network.                           *)
(***************************************************************************)
EXTENDS Integers, Sequences, FiniteSets, TLC

\* ---------------------------------------------------------------- bounds
MaxKanbanOps == 2  \* CandidatesKanban mutations started in a run
MaxListOps == 1    \* CandidatesList mutations started in a run
MaxApiOps == 2     \* API requests and useCandidates calls started in a run
MaxDrags == 2      \* drag sessions started in a run
MaxDeletes == 1    \* useCandidates.deleteCandidate calls started in a run
MaxPage == 3       \* largest page parameter of a GET /api/candidates request
MaxPageSize == 3   \* largest pageSize parameter of such a request
MaxToasts == 3     \* toasts created in a run
MaxClock == 1      \* milliseconds the clock advances in a run
MaxSaves == 1      \* note saves in a run
MaxSubmits == 1    \* assessment submissions in a run
MaxPuts == 2       \* PUT /api/assessments requests in a run
MaxReorders == 1   \* PATCH /api/jobs/:id/reorder requests in a run
MaxOrder == 3      \* largest order value a request names

\* ------------------------------------------------------------- constants
STAGES == <<"applied", "screen", "tech", "offer", "hired", "rejected">>
StageSet == {STAGES[i] : i \in 1..Len(STAGES)}

pageSize == 50
page == 1

\* Candidate ids. c1, c2 and c3 are seeded, c4 is created at run time.
SeedIds == {"c1", "c2", "c3"}
CandIds == {"c1", "c2", "c3", "c4"}

\* Stages the seeded rows start in (generateCandidate draws any registry
\* stage; these tables cover two cards in one column and three columns).
SeedStages == [c \in SeedIds |->
                 IF c = "c1" THEN {"applied"}
                 ELSE IF c = "c2" THEN {"applied", "tech"}
                 ELSE {"tech", "offer"}]

NoRecord == "<absent>"      \* no row with that primary key
NoStage == "<undefined>"    \* a row whose stage property is undefined
NoOver == "<null>"          \* event.over === null
NoDrag == [board |-> "none", active |-> NoOver, over |-> NoOver, serial |-> 0]
NoEnd == [board |-> "none", kind |-> "none", serial |-> 0, sameStage |-> FALSE]

\* Stage strings a caller of the mock API or of moveCandidate may send: the
\* code validates none of them.
RequestStages == {"hired", "bogus"}

\* Ids those callers address: a seeded row and an id the store lacks.
RequestIds == {"c1", "c4"}

\* Columns of KanbanBoard the pointer is taken over during a drag.
DragColumns == {"applied", "hired"}

\* GET /api/candidates: no request sent yet, and no response yet.
NoRequest == [search |-> <<>>, stage |-> "", jobId |-> "", page |-> <<>>,
              pageSize |-> <<>>, sent |-> FALSE]
NoResponse == [status |-> 0, data |-> <<>>,
               pagination |-> [page |-> 0, pageSize |-> 0, total |-> 0,
                               totalPages |-> 0]]

VARIABLES
  dbCandidates,   \* db.candidates: id -> persisted stage (or NoRecord)
  dbTimeline,     \* db.timeline: sequence of events in insertion order
  kanbanCache,    \* query data of ['candidates-kanban', search]
  kanbanStale,    \* that query is invalidated and will refetch
  listCache,      \* query data of ['candidates', search, stage, jobId]
  listStale,      \* that query is invalidated and will refetch
  ops,            \* every operation started so far, with its position
  running,        \* index of the operation inside a microtask chain, or 0
  session,        \* the dnd-kit drag session (active, over), or NoDrag
  ckActiveId,     \* CandidatesKanban: useState activeId
  kbActiveId,     \* KanbanBoard: useState activeId
  nDrags,         \* drag sessions started (history)
  lastEnd,        \* how the last drag session ended (history)
  apiRequest,     \* query of the GET /api/candidates request last sent
  apiResponse,    \* its response, NoResponse while the handler runs
  toasts,         \* use-toast: state.toasts
  toastTimeouts,  \* use-toast: keys of the toastTimeouts map
  count,          \* use-toast: the id counter of genId
  now,            \* the clock that new Date() and Date.now() read, in ms
  dbNotes,        \* db.candidates: the notes field of each row
  dbResponses,    \* db.responses: rows in insertion order
  timelineResponse, \* the timeline last read, by the API or the detail view
  dbAssessments,  \* db.assessments: the set of rows
  assessmentResponse, \* answer of the last GET /api/assessments/:jobId
  dbJobs          \* db.jobs: the order field of each row

\* The candidate pipeline, and the subsystems beside it.
pipelineVars == <<dbCandidates, dbTimeline, kanbanCache, kanbanStale,
                  listCache, listStale, ops, running, session, ckActiveId,
                  kbActiveId, nDrags, lastEnd, apiRequest, apiResponse>>
toastVars == <<toasts, toastTimeouts, count>>
activityVars == <<now, dbNotes, dbResponses, timelineResponse>>
catalogVars == <<dbAssessments, assessmentResponse, dbJobs>>
sideVars == <<toastVars, activityVars, catalogVars>>

vars == <<pipelineVars, sideVars>>

\* ------------------------------------------------------------- helpers
\* Sorted ids: Dexie's toArray() returns rows in primary-key order.
IdOrder == <<"c1", "c2", "c3", "c4">>

\* db.candidates.toArray()
toArray(tbl) ==
  LET Row(i) == [id |-> IdOrder[i], stage |-> tbl[IdOrder[i]]]
      RECURSIVE Build(_)
      Build(i) ==
        IF i > Len(IdOrder) THEN <<>>
        ELSE IF tbl[IdOrder[i]] = NoRecord THEN Build(i + 1)
        ELSE <<Row(i)>> \o Build(i + 1)
  IN Build(1)

\* Array.prototype.find on the id: the first row with that id, or NoRecord.
findStage(list, id) ==
  IF \E i \in 1..Len(list) : list[i].id = id
  THEN list[CHOOSE i \in 1..Len(list) :
              /\ list[i].id = id
              /\ \A j \in 1..(i - 1) : list[j].id # id].stage
  ELSE NoRecord

\* old.map(candidate => candidate.id === id ? {...candidate, stage} : candidate)
setStageInList(list, id, stage) ==
  [i \in 1..Len(list) |->
     IF list[i].id = id THEN [list[i] EXCEPT !.stage = stage] ELSE list[i]]

\* filteredCandidates.slice(start, start + pageSize)
paginatedCandidates(list) ==
  LET start == (page - 1) * pageSize
      stop == IF start + pageSize < Len(list) THEN start + pageSize ELSE Len(list)
  IN IF start >= Len(list) THEN <<>> ELSE SubSeq(list, start + 1, stop)

\* STAGES.reduce(... filter(c => c.stage === stage.value) ...)
candidatesByStage(list) ==
  [s \in StageSet |-> SelectSeq(list, LAMBDA c : c.stage = s)]

\* The stage whose grouped list holds the candidate with that id.
owningStage(groups, id) ==
  IF \E i \in 1..Len(STAGES) :
       \E k \in 1..Len(groups[STAGES[i]]) : groups[STAGES[i]][k].id = id
  THEN STAGES[CHOOSE i \in 1..Len(STAGES) :
         /\ \E k \in 1..Len(groups[STAGES[i]]) : groups[STAGES[i]][k].id = id
         /\ \A j \in 1..(i - 1) :
              ~ \E k \in 1..Len(groups[STAGES[j]]) : groups[STAGES[j]][k].id = id]
  ELSE NoStage

\* A timeline row. from/to are metadata.from / metadata.to; by is the index
\* of the operation that added the row (history).
\* timestamp is new Date().toISOString() of the clock; key is the form of
\* the row's id: crypto.randomUUID() here, `timeline_${Date.now()}` for the
\* row NotesSection adds.
Event(cid, type, from, to, by) ==
  [candidateId |-> cid, type |-> type, from |-> from, to |-> to, by |-> by,
   timestamp |-> now, key |-> "uuid"]

\* Jobs, and the rows of db.assessments. UuidOrder lists the ids that
\* crypto.randomUUID() can return in key order; seeding gave job j1 an
\* assessment and job j2 none.
JobIds == {"j1", "j2", "j3"}
AssessedJobs == {"j1", "j2"}
UuidOrder == <<"u1", "u2", "u3">>
Uuids == {UuidOrder[k] : k \in 1..Len(UuidOrder)}
keyRank(id) == CHOOSE k \in 1..Len(UuidOrder) : UuidOrder[k] = id
Bodies == {"x1", "x2"}
SeedAssessment == [id |-> "u2", jobId |-> "j1", body |-> "seed", by |-> 0]
NoAssessment == [status |-> 0, jobId |-> NoRecord, body |-> NoRecord]
SeedOrders == [j \in JobIds |-> CASE j = "j1" -> 1 [] j = "j2" -> 2 [] OTHER -> 3]

\* No timeline has been read yet.
NoTimeline == [view |-> "none", id |-> NoRecord, events |-> <<>>]

\* The object store's key path is 'id' without auto-increment: a row with no
\* id property has no key and the add is rejected.
timelineAddAccepts(hasId, storageOk) == hasId /\ storageOk

NewOp(path, id, to, pc) ==
  [path |-> path, id |-> id, to |-> to, pc |-> pc,
   prev |-> <<>>,          \* context.previousCandidates
   read |-> NoRecord,      \* the row read by the PATCH handler
   atCall |-> <<>>,        \* cache when the operation was called (history)
   from |-> NoRecord,      \* stage the caller saw for the candidate (history)
   dbFrom |-> NoRecord,    \* persisted stage when called (history)
   targetStage |-> NoStage,\* stage owning the drop target (history)
   wrote |-> FALSE,        \* the stage write took effect (history)
   events |-> 0,           \* timeline rows added by this operation (history)
   result |-> "pending",   \* pending | ok | error | notfound
   notified |-> FALSE,     \* an error toast was shown
   escaped |-> FALSE,      \* the rejection left the handler uncaught
   drag |-> 0,             \* serial of the drag that started it, 0 if none
   trigger |-> "call",     \* call | drop | hover | request
   missing |-> FALSE,      \* its store call addressed a key with no row (history)
   fault |-> FALSE,        \* a storage or network call of it failed (history)
   overlap |-> {}]         \* operations in flight during this one (history)

InFlight == {i \in 1..Len(ops) : ops[i].result = "pending"}

\* Start an operation: it overlaps everything in flight.
StartOp(o) ==
  LET n == Len(ops) + 1
      marked == [i \in 1..Len(ops) |->
                   IF i \in InFlight
                   THEN [ops[i] EXCEPT !.overlap = @ \cup {n}] ELSE ops[i]]
  IN Append(marked, [o EXCEPT !.overlap = InFlight])

Idle == running = 0

ApiOps == Cardinality({j \in 1..Len(ops) :
                         ops[j].path \in {"move", "add", "patch", "post"}})

\* ---------------------------------------------------------------- Init
\* The store after seeding: generateCandidate picks any registry stage. Both
\* queries have fetched once.
Init ==
  /\ dbCandidates \in {f \in [CandIds -> StageSet \cup {NoRecord}] :
                         /\ \A c \in SeedIds : f[c] \in SeedStages[c]
                         /\ \A c \in CandIds \ SeedIds : f[c] = NoRecord}
  /\ dbTimeline = <<>>
  /\ kanbanCache = toArray(dbCandidates)
  /\ kanbanStale = FALSE
  /\ listCache = toArray(dbCandidates)
  /\ listStale = FALSE
  /\ ops = <<>>
  /\ running = 0
  /\ session = NoDrag
  /\ ckActiveId = NoOver
  /\ kbActiveId = NoOver
  /\ nDrags = 0
  /\ lastEnd = NoEnd
  /\ apiRequest = NoRequest
  /\ apiResponse = NoResponse
  /\ toasts = <<>>
  /\ toastTimeouts = {}
  /\ count = 0
  /\ now = 0
  /\ dbNotes = [c \in CandIds |-> ""]
  /\ dbResponses = <<>>
  /\ timelineResponse = NoTimeline
  /\ dbAssessments = {SeedAssessment}
  /\ assessmentResponse = NoAssessment
  /\ dbJobs = SeedOrders

\* ------------------------------------------------------- drag sessions
\* Cards a board renders, i.e. the sortable ids it registers with dnd-kit.
ckGroups == candidatesByStage(paginatedCandidates(kanbanCache))
kbGroups == candidatesByStage(listCache)

renderedCards(groups) ==
  {c \in CandIds : \E s \in StageSet :
     \E k \in 1..Len(groups[s]) : groups[s][k].id = c}

\* Droppable ids. KanbanBoard registers every Column (id = stage.id) and
\* every card; CandidatesKanban registers only its cards (KanbanColumn calls
\* no droppable hook).
dropTargets(board) ==
  IF board = "kb" THEN renderedCards(kbGroups) \cup DragColumns
  ELSE renderedCards(ckGroups)

\* The stage that owns a drop target in a board's grouping view.
targetStageOf(board, over) ==
  IF over = NoOver THEN NoStage
  ELSE IF over \in StageSet THEN over
  ELSE owningStage(IF board = "kb" THEN kbGroups ELSE ckGroups, over)

boardCache(board) == IF board = "kb" THEN listCache ELSE kanbanCache

EndRecord(kind) ==
  [board |-> session.board, kind |-> kind, serial |-> session.serial,
   sameStage |-> findStage(boardCache(session.board), session.active)
                   = targetStageOf(session.board, session.over)]

\* handleDragStart of either board: setActiveId(active.id).
handleDragStart(board, c) ==
  /\ Idle
  /\ session = NoDrag
  /\ nDrags < MaxDrags
  /\ c \in renderedCards(IF board = "kb" THEN kbGroups ELSE ckGroups)
  /\ session' = [board |-> board, active |-> c, over |-> NoOver,
                 serial |-> nDrags + 1]
  /\ nDrags' = nDrags + 1
  /\ IF board = "kb"
     THEN kbActiveId' = c /\ UNCHANGED ckActiveId
     ELSE ckActiveId' = c /\ UNCHANGED kbActiveId
  /\ UNCHANGED <<dbCandidates, dbTimeline, kanbanCache, kanbanStale,
                 listCache, listStale, ops, running, lastEnd>>
  /\ UNCHANGED <<apiRequest, apiResponse>>
  /\ UNCHANGED sideVars

\* CandidatesKanban.handleDragOver: computes activeStage and overStage and
\* returns; the only state that moves is dnd-kit's `over`.
ckHandleDragOver(o) ==
  /\ Idle
  /\ session.board = "ck"
  /\ o \in dropTargets("ck") \cup {NoOver}
  /\ o # session.over
  /\ session' = [session EXCEPT !.over = o]
  /\ UNCHANGED <<dbCandidates, dbTimeline, kanbanCache, kanbanStale,
                 listCache, listStale, ops, running, ckActiveId, kbActiveId,
                 nDrags, lastEnd>>
  /\ UNCHANGED <<apiRequest, apiResponse>>
  /\ UNCHANGED sideVars

\* The gesture is cancelled (Escape): neither DndContext passes an
\* onDragCancel handler, so no component state is touched.
dragCancel ==
  /\ Idle
  /\ session # NoDrag
  /\ session' = NoDrag
  /\ lastEnd' = EndRecord("cancel")
  /\ UNCHANGED <<dbCandidates, dbTimeline, kanbanCache, kanbanStale,
                 listCache, listStale, ops, running, ckActiveId, kbActiveId,
                 nDrags>>
  /\ UNCHANGED <<apiRequest, apiResponse>>
  /\ UNCHANGED sideVars

\* ------------------------------------- CandidatesKanban: optimistic path
\* newStage as handleDragEnd resolves it from over.id.
ckNewStage(overId) ==
  IF overId \in StageSet THEN overId
  ELSE owningStage(ckGroups, overId)

\* CandidatesKanban.handleDragEnd, up to the call of mutateAsync.
ckHandleDragEnd ==
  /\ Idle
  /\ session.board = "ck"
  /\ LET over == session.over
         candidateId == session.active
         newStage == IF over = NoOver THEN NoStage ELSE ckNewStage(over)
         stage == findStage(kanbanCache, candidateId)
         returns == \/ over = NoOver
                    \/ stage = NoRecord
                    \/ stage = newStage
                    \/ newStage = NoStage
     IN /\ ckActiveId' = NoOver
        /\ session' = NoDrag
        /\ lastEnd' = EndRecord(IF over = NoOver THEN "outside" ELSE "drop")
        /\ IF returns
           THEN UNCHANGED <<ops, running>>
           ELSE /\ Cardinality({j \in 1..Len(ops) : ops[j].path = "kanban"}) < MaxKanbanOps
                /\ ops' = StartOp(
                     [NewOp("kanban", candidateId, newStage, "onMutate")
                        EXCEPT !.atCall = kanbanCache,
                               !.from = stage,
                               !.dbFrom = dbCandidates[candidateId],
                               !.targetStage = targetStageOf("ck", over),
                               !.drag = session.serial,
                               !.trigger = "drop"])
                /\ running' = Len(ops) + 1
  /\ UNCHANGED <<dbCandidates, dbTimeline, kanbanCache, kanbanStale,
                 listCache, listStale, kbActiveId, nDrags>>
  /\ UNCHANGED <<apiRequest, apiResponse>>
  /\ UNCHANGED sideVars

\* A rollback that keeps the optimistic list instead of the snapshot.
onErrorRollbackKeepsCurrent(previousCandidates, current) == current

\* onError: context.previousCandidates is an array, hence truthy, and is
\* written back over whatever the cache holds.
onErrorRollback(previousCandidates, current) == previousCandidates

\* updateCandidateStage.onMutate: cancelQueries, snapshot, optimistic write.
ckOnMutate(i) ==
  /\ running = i
  /\ ops[i].pc = "onMutate"
  /\ kanbanStale' = FALSE
  /\ ops' = [ops EXCEPT ![i].prev = kanbanCache,
                        ![i].pc = "mutationFn"]
  /\ kanbanCache' = setStageInList(kanbanCache, ops[i].id, ops[i].to)
  /\ UNCHANGED <<dbCandidates, dbTimeline, listCache, listStale, running,
                 session, ckActiveId, kbActiveId, nDrags, lastEnd>>
  /\ UNCHANGED <<apiRequest, apiResponse>>
  /\ UNCHANGED sideVars

\* updateCandidateStage.mutationFn up to `await db.candidates.update`.
ckMutationFn(i) ==
  /\ running = i
  /\ ops[i].pc = "mutationFn"
  /\ kanbanCache' = setStageInList(kanbanCache, ops[i].id, ops[i].to)
  /\ ops' = [ops EXCEPT ![i].pc = "db"]
  /\ running' = 0
  /\ UNCHANGED <<dbCandidates, dbTimeline, kanbanStale, listCache, listStale,
                 session, ckActiveId, kbActiveId, nDrags, lastEnd>>
  /\ UNCHANGED <<apiRequest, apiResponse>>
  /\ UNCHANGED sideVars

\* db.candidates.update(id, {stage}): Dexie modifies the row if the key
\* exists and resolves either way.
dbUpdateStage(tbl, id, stage) ==
  IF tbl[id] = NoRecord THEN tbl ELSE [tbl EXCEPT ![id] = stage]

\* The store write of the Kanban mutation settles; then onError (rollback
\* and toast) on failure, and onSettled (invalidate) in both cases. The
\* rejection of mutateAsync is not caught by handleDragEnd.
ckStoreSettles(i, ok) ==
  /\ Idle
  /\ ops[i].path = "kanban"
  /\ ops[i].pc = "db"
  /\ IF ok
     THEN /\ dbCandidates' = dbUpdateStage(dbCandidates, ops[i].id, ops[i].to)
          /\ ops' = [ops EXCEPT ![i].pc = "done", ![i].result = "ok",
                                ![i].wrote = dbCandidates[ops[i].id] # NoRecord,
                                ![i].missing = dbCandidates[ops[i].id] = NoRecord]
          /\ UNCHANGED kanbanCache
     ELSE /\ kanbanCache' = onErrorRollback(ops[i].prev, kanbanCache)
          /\ ops' = [ops EXCEPT ![i].pc = "done", ![i].result = "error",
                                ![i].notified = TRUE, ![i].escaped = TRUE,
                                ![i].fault = TRUE]
          /\ UNCHANGED dbCandidates
  /\ kanbanStale' = TRUE
  /\ UNCHANGED <<dbTimeline, listCache, listStale, running, session,
                 ckActiveId, kbActiveId, nDrags, lastEnd>>
  /\ UNCHANGED <<apiRequest, apiResponse>>
  /\ UNCHANGED sideVars

\* generateMockCandidates(count): rows with ids candidate-1.. and a random
\* registry stage each; one such row stands for the list.
MockStages == {"applied", "hired"}
generateMockCandidates == {<<[id |-> "candidate-1", stage |-> s]>> : s \in MockStages}

\* What the queryFn of ['candidates-kanban', search] returns with search = '':
\* the rows of the store, or, when reading the store throws, the mock rows
\* from its catch block. (The store of the model is never empty, so the
\* count === 0 branch is not taken.)
queryFnResult(ok) ==
  IF ok THEN {toArray(dbCandidates)} ELSE generateMockCandidates

\* queryFn of ['candidates-kanban', search] with search = '': the refetch
\* that an invalidation starts.
kanbanQueryFn(ok) ==
  /\ Idle
  /\ kanbanStale
  /\ kanbanCache' \in queryFnResult(ok)
  /\ kanbanStale' = FALSE
  /\ UNCHANGED <<dbCandidates, dbTimeline, listCache, listStale, ops, running,
                 session, ckActiveId, kbActiveId, nDrags, lastEnd>>
  /\ UNCHANGED <<apiRequest, apiResponse>>
  /\ UNCHANGED sideVars

\* The same queryFn when CandidatesKanban mounts (the Kanban tab is opened):
\* the query has staleTime 0, so mounting refetches whatever the cache holds.
kanbanMount(ok) ==
  /\ Idle
  /\ session = NoDrag
  /\ kanbanCache' \in queryFnResult(ok)
  /\ kanbanCache' # kanbanCache
  /\ kanbanStale' = FALSE
  /\ UNCHANGED <<dbCandidates, dbTimeline, listCache, listStale, ops, running,
                 session, ckActiveId, kbActiveId, nDrags, lastEnd>>
  /\ UNCHANGED <<apiRequest, apiResponse>>
  /\ UNCHANGED sideVars

\* ------------------------- KanbanBoard in CandidatesList: write on hover
\* overStage of KanbanBoard.handleDragOver. A Column registers
\* data = {type, stage}; a card registers data = {type, candidate}, which
\* has no stage, so the expression falls through to overId.
kbOverStage(overId) ==
  IF overId \in StageSet THEN overId ELSE overId

\* KanbanBoard.handleDragOver -> onCandidateMove = handleStageDrop ->
\* updateCandidateStage.mutate, up to `await db.candidates.update`.
kbHandleDragOver(o) ==
  /\ Idle
  /\ session.board = "kb"
  /\ o \in dropTargets("kb") \cup {NoOver}
  /\ o # session.over
  /\ session' = [session EXCEPT !.over = o]
  /\ LET activeId == session.active
         activeStage == owningStage(kbGroups, activeId)
         overStage == kbOverStage(o)
         stage == findStage(listCache, activeId)
         returns == \/ o = NoOver
                    \/ activeId = o
                    \/ activeStage = overStage
                    \/ stage = NoRecord
                    \/ stage = overStage
     IN IF returns
        THEN UNCHANGED ops
        ELSE /\ Cardinality({j \in 1..Len(ops) : ops[j].path = "list"}) < MaxListOps
             /\ ops' = StartOp(
                  [NewOp("list", activeId, overStage, "update")
                     EXCEPT !.from = stage,
                            !.dbFrom = dbCandidates[activeId],
                            !.targetStage = targetStageOf("kb", o),
                            !.drag = session.serial,
                            !.trigger = "hover"])
  /\ UNCHANGED <<dbCandidates, dbTimeline, kanbanCache, kanbanStale,
                 listCache, listStale, running, ckActiveId, kbActiveId,
                 nDrags, lastEnd>>
  /\ UNCHANGED <<apiRequest, apiResponse>>
  /\ UNCHANGED sideVars

\* KanbanBoard.handleDragEnd: setActiveId(null) and nothing else.
kbHandleDragEnd ==
  /\ Idle
  /\ session.board = "kb"
  /\ kbActiveId' = NoOver
  /\ session' = NoDrag
  /\ lastEnd' = EndRecord(IF session.over = NoOver THEN "outside" ELSE "drop")
  /\ UNCHANGED <<dbCandidates, dbTimeline, kanbanCache, kanbanStale,
                 listCache, listStale, ops, running, ckActiveId, nDrags>>
  /\ UNCHANGED <<apiRequest, apiResponse>>
  /\ UNCHANGED sideVars

\* CandidatesList mutationFn, first await: db.candidates.update(id, {stage}).
\* On rejection onError shows the toast.
listUpdateSettles(i, ok) ==
  /\ Idle
  /\ ops[i].path = "list"
  /\ ops[i].pc = "update"
  /\ IF ok
     THEN /\ dbCandidates' = dbUpdateStage(dbCandidates, ops[i].id, ops[i].to)
          /\ ops' = [ops EXCEPT ![i].pc = "timelineAdd",
                                ![i].wrote = dbCandidates[ops[i].id] # NoRecord,
                                ![i].missing = dbCandidates[ops[i].id] = NoRecord]
     ELSE /\ ops' = [ops EXCEPT ![i].pc = "done", ![i].result = "error",
                                ![i].notified = TRUE, ![i].fault = TRUE]
          /\ UNCHANGED dbCandidates
  /\ UNCHANGED <<dbTimeline, kanbanCache, kanbanStale, listCache, listStale,
                 running, session, ckActiveId, kbActiveId, nDrags, lastEnd>>
  /\ UNCHANGED <<apiRequest, apiResponse>>
  /\ UNCHANGED sideVars

\* CandidatesList mutationFn, second await: db.timeline.add of a row with no
\* id. If the add were accepted, onSuccess would invalidate ["candidates"]
\* and then read the undeclared name `id`, which throws and lands in onError
\* as well.
listTimelineAddSettles(i, storageOk) ==
  /\ Idle
  /\ ops[i].path = "list"
  /\ ops[i].pc = "timelineAdd"
  /\ IF timelineAddAccepts(FALSE, storageOk)
     THEN /\ dbTimeline' = Append(dbTimeline,
                 Event(ops[i].id, "status_change", NoStage, NoStage, i))
          /\ listStale' = TRUE
          /\ ops' = [ops EXCEPT ![i].pc = "done", ![i].result = "error",
                                ![i].events = @ + 1, ![i].notified = TRUE]
     ELSE /\ ops' = [ops EXCEPT ![i].pc = "done", ![i].result = "error",
                                ![i].notified = TRUE,
                                ![i].fault = ~storageOk]
          /\ UNCHANGED <<dbTimeline, listStale>>
  /\ UNCHANGED <<dbCandidates, kanbanCache, kanbanStale, listCache, running,
                 session, ckActiveId, kbActiveId, nDrags, lastEnd>>
  /\ UNCHANGED <<apiRequest, apiResponse>>
  /\ UNCHANGED sideVars

\* queryFn of ['candidates', search, stage, jobId] with empty filters. It
\* runs on mount, on every filter change and after an invalidation.
listQueryFn ==
  /\ Idle
  /\ listCache' = toArray(dbCandidates)
  /\ listStale' = FALSE
  /\ listStale \/ listCache' # listCache
  /\ UNCHANGED <<dbCandidates, dbTimeline, kanbanCache, kanbanStale, ops,
                 running, session, ckActiveId, kbActiveId, nDrags, lastEnd>>
  /\ UNCHANGED <<apiRequest, apiResponse>>
  /\ UNCHANGED sideVars

\* ------------------------------------------------------- useCandidates
\* moveCandidate(candidateId, newStage): both arguments truthy, then
\* moveCandidateMutation.mutate up to `await db.candidates.update`.
moveCandidate(c, newStage) ==
  /\ Idle
  /\ ApiOps < MaxApiOps
  /\ ops' = StartOp([NewOp("move", c, newStage, "update")
                       EXCEPT !.from = dbCandidates[c],
                              !.dbFrom = dbCandidates[c]])
  /\ UNCHANGED <<dbCandidates, dbTimeline, kanbanCache, kanbanStale,
                 listCache, listStale, running, session, ckActiveId,
                 kbActiveId, nDrags, lastEnd>>
  /\ UNCHANGED <<apiRequest, apiResponse>>
  /\ UNCHANGED sideVars

\* moveCandidateMutation settles: onSuccess invalidates ['candidates'],
\* onError only logs.
moveSettles(i, ok) ==
  /\ Idle
  /\ ops[i].path = "move"
  /\ ops[i].pc = "update"
  /\ IF ok
     THEN /\ dbCandidates' = dbUpdateStage(dbCandidates, ops[i].id, ops[i].to)
          /\ listStale' = TRUE
          /\ ops' = [ops EXCEPT ![i].pc = "done", ![i].result = "ok",
                                ![i].wrote = dbCandidates[ops[i].id] # NoRecord,
                                ![i].missing = dbCandidates[ops[i].id] = NoRecord]
     ELSE /\ ops' = [ops EXCEPT ![i].pc = "done", ![i].result = "error",
                                ![i].fault = TRUE]
          /\ UNCHANGED <<dbCandidates, listStale>>
  /\ UNCHANGED <<dbTimeline, kanbanCache, kanbanStale, listCache, running,
                 session, ckActiveId, kbActiveId, nDrags, lastEnd>>
  /\ UNCHANGED <<apiRequest, apiResponse>>
  /\ UNCHANGED sideVars

\* addCandidate(candidate): the mutation forces stage 'applied' and a fresh
\* id, up to `await db.candidates.add`.
addCandidate(c) ==
  /\ Idle
  /\ ApiOps < MaxApiOps
  /\ dbCandidates[c] = NoRecord
  /\ \A j \in InFlight : ops[j].id # c
  /\ ops' = StartOp(NewOp("add", c, "applied", "add"))
  /\ UNCHANGED <<dbCandidates, dbTimeline, kanbanCache, kanbanStale,
                 listCache, listStale, running, session, ckActiveId,
                 kbActiveId, nDrags, lastEnd>>
  /\ UNCHANGED <<apiRequest, apiResponse>>
  /\ UNCHANGED sideVars

\* addCandidateMutation settles.
addSettles(i, ok) ==
  /\ Idle
  /\ ops[i].path = "add"
  /\ ops[i].pc = "add"
  /\ IF ok
     THEN /\ dbCandidates' = [dbCandidates EXCEPT ![ops[i].id] = ops[i].to]
          /\ listStale' = TRUE
          /\ ops' = [ops EXCEPT ![i].pc = "done", ![i].result = "ok",
                                ![i].wrote = TRUE]
     ELSE /\ ops' = [ops EXCEPT ![i].pc = "done", ![i].result = "error",
                                ![i].fault = TRUE]
          /\ UNCHANGED <<dbCandidates, listStale>>
  /\ UNCHANGED <<dbTimeline, kanbanCache, kanbanStale, listCache, running,
                 session, ckActiveId, kbActiveId, nDrags, lastEnd>>
  /\ UNCHANGED <<apiRequest, apiResponse>>
  /\ UNCHANGED sideVars

\* deleteCandidate(id): deleteCandidateMutation.mutate up to
\* `await db.candidates.delete`.
deleteCandidate(c) ==
  /\ Idle
  /\ Cardinality({j \in 1..Len(ops) : ops[j].path = "delete"}) < MaxDeletes
  /\ ops' = StartOp([NewOp("delete", c, NoStage, "delete")
                       EXCEPT !.dbFrom = dbCandidates[c]])
  /\ UNCHANGED <<dbCandidates, dbTimeline, kanbanCache, kanbanStale,
                 listCache, listStale, running, session, ckActiveId,
                 kbActiveId, nDrags, lastEnd>>
  /\ UNCHANGED <<apiRequest, apiResponse>>
  /\ UNCHANGED sideVars

\* deleteCandidateMutation settles: the row is removed (a missing key is no
\* error) and onSuccess invalidates ['candidates']; onError only logs.
deleteSettles(i, ok) ==
  /\ Idle
  /\ ops[i].path = "delete"
  /\ ops[i].pc = "delete"
  /\ IF ok
     THEN /\ dbCandidates' = [dbCandidates EXCEPT ![ops[i].id] = NoRecord]
          /\ listStale' = TRUE
          /\ ops' = [ops EXCEPT ![i].pc = "done", ![i].result = "ok",
                                ![i].missing = dbCandidates[ops[i].id] = NoRecord]
     ELSE /\ ops' = [ops EXCEPT ![i].pc = "done", ![i].result = "error",
                                ![i].fault = TRUE]
          /\ UNCHANGED <<dbCandidates, listStale>>
  /\ UNCHANGED <<dbTimeline, kanbanCache, kanbanStale, listCache, running,
                 session, ckActiveId, kbActiveId, nDrags, lastEnd>>
  /\ UNCHANGED <<apiRequest, apiResponse>>
  /\ UNCHANGED sideVars

\* ------------------------------------------------------------ mock API
\* The handlers array lists two handlers for PATCH and for POST
\* /api/candidates; msw answers with the first that matches, so the second
\* ones (handlers.js 545-580) never run.

\* A PATCH /api/candidates/:id request arrives; stage is NoStage when the
\* body carries no stage. The handler is suspended in simulateNetwork(true).
patchRequest(c, stage) ==
  /\ Idle
  /\ ApiOps < MaxApiOps
  /\ ops' = StartOp([NewOp("patch", c, stage, "network")
                       EXCEPT !.dbFrom = dbCandidates[c],
                              !.trigger = "request"])
  /\ UNCHANGED <<dbCandidates, dbTimeline, kanbanCache, kanbanStale,
                 listCache, listStale, running, session, ckActiveId,
                 kbActiveId, nDrags, lastEnd>>
  /\ UNCHANGED <<apiRequest, apiResponse>>
  /\ UNCHANGED sideVars

\* `updates.stage && updates.stage !== candidate.stage`
patchStageChanged(stage, current) == stage # NoStage /\ stage # current

\* simulateNetwork settles, then db.candidates.get(id): 500 on the simulated
\* error, 404 on an unknown id, otherwise the row is read and merged.
patchNetworkSettles(i, ok) ==
  /\ Idle
  /\ ops[i].path = "patch"
  /\ ops[i].pc = "network"
  /\ LET candidate == dbCandidates[ops[i].id]
     IN ops' =
          IF ~ok THEN [ops EXCEPT ![i].pc = "done", ![i].result = "error",
                                  ![i].fault = TRUE]
          ELSE IF candidate = NoRecord
          THEN [ops EXCEPT ![i].pc = "done", ![i].result = "notfound",
                           ![i].missing = TRUE]
          ELSE [ops EXCEPT ![i].read = candidate, ![i].from = candidate,
                           ![i].pc = IF patchStageChanged(ops[i].to, candidate)
                                     THEN "timelineAdd" ELSE "update"]
  /\ UNCHANGED <<dbCandidates, dbTimeline, kanbanCache, kanbanStale,
                 listCache, listStale, running, session, ckActiveId,
                 kbActiveId, nDrags, lastEnd>>
  /\ UNCHANGED <<apiRequest, apiResponse>>
  /\ UNCHANGED sideVars

\* db.timeline.add of the stage_change row (it has an id), before the
\* candidate row is written.
patchTimelineAddSettles(i, storageOk) ==
  /\ Idle
  /\ ops[i].path = "patch"
  /\ ops[i].pc = "timelineAdd"
  /\ IF timelineAddAccepts(TRUE, storageOk)
     THEN /\ dbTimeline' = Append(dbTimeline,
                 Event(ops[i].id, "stage_change", ops[i].read, ops[i].to, i))
          /\ ops' = [ops EXCEPT ![i].pc = "update", ![i].events = @ + 1]
     ELSE /\ ops' = [ops EXCEPT ![i].pc = "done", ![i].result = "error",
                                ![i].fault = TRUE]
          /\ UNCHANGED dbTimeline
  /\ UNCHANGED <<dbCandidates, kanbanCache, kanbanStale, listCache, listStale,
                 running, session, ckActiveId, kbActiveId, nDrags, lastEnd>>
  /\ UNCHANGED <<apiRequest, apiResponse>>
  /\ UNCHANGED sideVars

\* updatedCandidate = {...candidate, ...updates}: the stage of the body, or
\* the stage read earlier when the body has none.
patchMergedStage(read, stage) == IF stage # NoStage THEN stage ELSE read

\* db.candidates.update(id, updatedCandidate), then the 200 response.
patchUpdateSettles(i, ok) ==
  /\ Idle
  /\ ops[i].path = "patch"
  /\ ops[i].pc = "update"
  /\ IF ok
     THEN /\ dbCandidates' = dbUpdateStage(dbCandidates, ops[i].id,
                                patchMergedStage(ops[i].read, ops[i].to))
          /\ ops' = [ops EXCEPT ![i].pc = "done", ![i].result = "ok",
                                ![i].wrote = /\ dbCandidates[ops[i].id] # NoRecord
                                             /\ ops[i].to # NoStage,
                                ![i].missing = dbCandidates[ops[i].id] = NoRecord]
     ELSE /\ ops' = [ops EXCEPT ![i].pc = "done", ![i].result = "error",
                                ![i].fault = TRUE]
          /\ UNCHANGED dbCandidates
  /\ UNCHANGED <<dbTimeline, kanbanCache, kanbanStale, listCache, listStale,
                 running, session, ckActiveId, kbActiveId, nDrags, lastEnd>>
  /\ UNCHANGED <<apiRequest, apiResponse>>
  /\ UNCHANGED sideVars

\* A POST /api/candidates request arrives; the body is spread into the new
\* row, so its stage is whatever the body holds (NoStage if it has none).
postRequest(stage) ==
  /\ Idle
  /\ ApiOps < MaxApiOps
  /\ ops' = StartOp([NewOp("post", NoRecord, stage, "network")
                       EXCEPT !.trigger = "request"])
  /\ UNCHANGED <<dbCandidates, dbTimeline, kanbanCache, kanbanStale,
                 listCache, listStale, running, session, ckActiveId,
                 kbActiveId, nDrags, lastEnd>>
  /\ UNCHANGED <<apiRequest, apiResponse>>
  /\ UNCHANGED sideVars

\* simulateNetwork settles; the row gets id crypto.randomUUID() and
\* db.candidates.add is issued.
postNetworkSettles(i, ok, c) ==
  /\ Idle
  /\ ops[i].path = "post"
  /\ ops[i].pc = "network"
  /\ IF ok
     THEN /\ dbCandidates[c] = NoRecord
          /\ \A j \in InFlight : ops[j].id # c
          /\ ops' = [ops EXCEPT ![i].id = c, ![i].pc = "add"]
     ELSE ops' = [ops EXCEPT ![i].pc = "done", ![i].result = "error",
                             ![i].fault = TRUE]
  /\ UNCHANGED <<dbCandidates, dbTimeline, kanbanCache, kanbanStale,
                 listCache, listStale, running, session, ckActiveId,
                 kbActiveId, nDrags, lastEnd>>
  /\ UNCHANGED <<apiRequest, apiResponse>>
  /\ UNCHANGED sideVars

\* db.candidates.add(newCandidate)
postAddSettles(i, ok) ==
  /\ Idle
  /\ ops[i].path = "post"
  /\ ops[i].pc = "add"
  /\ IF ok
     THEN /\ dbCandidates' = [dbCandidates EXCEPT ![ops[i].id] = ops[i].to]
          /\ ops' = [ops EXCEPT ![i].pc = "timelineAdd", ![i].wrote = TRUE]
     ELSE /\ ops' = [ops EXCEPT ![i].pc = "done", ![i].result = "error",
                                ![i].fault = TRUE]
          /\ UNCHANGED dbCandidates
  /\ UNCHANGED <<dbTimeline, kanbanCache, kanbanStale, listCache, listStale,
                 running, session, ckActiveId, kbActiveId, nDrags, lastEnd>>
  /\ UNCHANGED <<apiRequest, apiResponse>>
  /\ UNCHANGED sideVars

\* db.timeline.add of the 'applied' row, then the 201 response.
postTimelineAddSettles(i, storageOk) ==
  /\ Idle
  /\ ops[i].path = "post"
  /\ ops[i].pc = "timelineAdd"
  /\ IF timelineAddAccepts(TRUE, storageOk)
     THEN /\ dbTimeline' = Append(dbTimeline,
                 Event(ops[i].id, "applied", NoStage, NoStage, i))
          /\ ops' = [ops EXCEPT ![i].pc = "done", ![i].result = "ok",
                                ![i].events = @ + 1]
     ELSE /\ ops' = [ops EXCEPT ![i].pc = "done", ![i].result = "error",
                                ![i].fault = TRUE]
          /\ UNCHANGED dbTimeline
  /\ UNCHANGED <<dbCandidates, kanbanCache, kanbanStale, listCache, listStale,
                 running, session, ckActiveId, kbActiveId, nDrags, lastEnd>>
  /\ UNCHANGED <<apiRequest, apiResponse>>
  /\ UNCHANGED sideVars

\* -------------------------------------------------- GET /api/candidates
\* Strings the handler inspects are sequences of one-character strings.
UpperCase == <<"A", "B", "C", "D", "E", "F", "G", "H", "I", "J", "K", "L", "M",
               "N", "O", "P", "Q", "R", "S", "T", "U", "V", "W", "X", "Y", "Z">>
LowerCase == <<"a", "b", "c", "d", "e", "f", "g", "h", "i", "j", "k", "l", "m",
               "n", "o", "p", "q", "r", "s", "t", "u", "v", "w", "x", "y", "z">>
Digits == <<"0", "1", "2", "3", "4", "5", "6", "7", "8", "9">>

\* The fields of a candidate row that the filters read. generateCandidate
\* fills all of them; c4 is the row a caller creates at run time.
Profile ==
  [c \in CandIds |->
     IF c = "c1"
     THEN [name |-> <<"A", "l">>, email |-> <<"a", "l", "@", "x">>,
           currentRole |-> <<"D", "e", "v">>, skills |-> <<<<"G", "o">>>>,
           jobId |-> "j1"]
     ELSE IF c = "c2"
     THEN [name |-> <<"D", "e", "v">>, email |-> <<"d", "@", "x">>,
           currentRole |-> <<"Q", "A">>, skills |-> <<<<"G", "o">>>>,
           jobId |-> "j2"]
     ELSE IF c = "c3"
     THEN [name |-> <<"B", "o">>, email |-> <<"b", "o", "@", "x">>,
           currentRole |-> <<"Q", "A">>,
           skills |-> <<<<"G", "o">>, <<"D", "e", "v", "O", "p", "s">>>>,
           jobId |-> "j1"]
     ELSE [name |-> <<"D", "i">>, email |-> <<"d", "e", "v", "@", "x">>,
           currentRole |-> <<"P", "M">>, skills |-> <<>>,
           jobId |-> "j2"]]

\* Query parameters a client sends; the empty string is a missing parameter
\* (searchParams.get gives null, which `||` and `if` treat like '').
SearchTerms == {<<>>, <<"d", "e", "v">>, <<"D", "E", "V">>, <<"q", "a">>}
StageParams == {"", "applied", "tech"}
JobParams == {"", "j1"}
PageParams == {<<>>} \cup {<<Digits[n + 1]>> : n \in 1..MaxPage}
PageSizeParams == {<<>>} \cup {<<Digits[n + 1]>> : n \in 1..MaxPageSize}

\* String.prototype.toLowerCase
toLowerCase(str) ==
  [k \in 1..Len(str) |->
     IF \E n \in 1..Len(UpperCase) : UpperCase[n] = str[k]
     THEN LowerCase[CHOOSE n \in 1..Len(UpperCase) : UpperCase[n] = str[k]]
     ELSE str[k]]

\* String.prototype.includes
includes(str, part) ==
  \E k \in 0..(Len(str) - Len(part)) : SubSeq(str, k + 1, k + Len(part)) = part

\* parseInt of a string of decimal digits
RECURSIVE parseInt(_)
parseInt(str) ==
  LET digit(ch) == (CHOOSE n \in 1..Len(Digits) : Digits[n] = ch) - 1
  IN IF Len(str) = 1 THEN digit(str[1])
     ELSE parseInt(SubSeq(str, 1, Len(str) - 1)) * 10 + digit(str[Len(str)])

\* Math.ceil(a / b) for a >= 0 and b >= 1
ceilDiv(a, b) == (a + b - 1) \div b

\* Array.prototype.slice(start, end) for start, end >= 0
slice(list, start, end) ==
  LET stop == IF end < Len(list) THEN end ELSE Len(list)
  IN IF start >= stop THEN <<>> ELSE SubSeq(list, start + 1, stop)

\* The search predicate of the handler: name, email or one of the skills.
handlerSearchMatches(c, searchLower) ==
  \/ includes(toLowerCase(Profile[c].name), searchLower)
  \/ includes(toLowerCase(Profile[c].email), searchLower)
  \/ \E k \in 1..Len(Profile[c].skills) :
       includes(toLowerCase(Profile[c].skills[k]), searchLower)

\* The three filter steps of the handler on the rows of db.candidates.
handlerFilter(rows, q) ==
  LET bySearch == IF q.search # <<>>
                  THEN SelectSeq(rows, LAMBDA r :
                         handlerSearchMatches(r.id, toLowerCase(q.search)))
                  ELSE rows
      byStage == IF q.stage # ""
                 THEN SelectSeq(bySearch, LAMBDA r : r.stage = q.stage)
                 ELSE bySearch
  IN IF q.jobId # ""
     THEN SelectSeq(byStage, LAMBDA r : Profile[r.id].jobId = q.jobId)
     ELSE byStage

\* The 200 response of the handler for query q over the given rows.
getCandidatesResponse(rows, q) ==
  LET pageNo == parseInt(IF q.page # <<>> THEN q.page ELSE <<"1">>)
      size == parseInt(IF q.pageSize # <<>> THEN q.pageSize ELSE <<"2", "0">>)
      candidates == handlerFilter(rows, q)
      total == Len(candidates)
      start == (pageNo - 1) * size
  IN [status |-> 200,
      data |-> slice(candidates, start, start + size),
      pagination |-> [page |-> pageNo, pageSize |-> size, total |-> total,
                      totalPages |-> ceilDiv(total, size)]]

\* A GET /api/candidates request arrives; the handler is suspended in
\* simulateNetwork() (a read: the delay only).
getCandidatesRequest(q) ==
  /\ Idle
  /\ ~ apiRequest.sent \/ apiResponse # NoResponse
  /\ apiRequest' = [q EXCEPT !.sent = TRUE]
  /\ apiResponse' = NoResponse
  /\ UNCHANGED <<dbCandidates, dbTimeline, kanbanCache, kanbanStale,
                 listCache, listStale, ops, running, session, ckActiveId,
                 kbActiveId, nDrags, lastEnd>>
  /\ UNCHANGED sideVars

\* The delay is over: db.candidates.toArray(), filters, pagination and the
\* response; a rejected read is answered by handleError with status 500.
getCandidatesSettles(ok) ==
  /\ Idle
  /\ apiRequest.sent
  /\ apiResponse = NoResponse
  /\ apiResponse' = IF ok
                    THEN getCandidatesResponse(toArray(dbCandidates), apiRequest)
                    ELSE [NoResponse EXCEPT !.status = 500]
  /\ UNCHANGED <<dbCandidates, dbTimeline, kanbanCache, kanbanStale,
                 listCache, listStale, ops, running, session, ckActiveId,
                 kbActiveId, nDrags, lastEnd, apiRequest>>
  /\ UNCHANGED sideVars

\* ---------------------------------------------- notes, submit, timeline
NoteTexts == {"n1"}
NoteIds == {"c1"}
SubmitIds == {"c1"}
TimelineIds == {"c1"}   \* the candidates whose timeline is read

NoteOps == Cardinality({j \in 1..Len(ops) : ops[j].path = "note"})
SubmitOps == Cardinality({j \in 1..Len(ops) : ops[j].path = "submit"})

\* The clock passes a millisecond boundary.
tick ==
  /\ now < MaxClock
  /\ now' = now + 1
  /\ UNCHANGED <<dbNotes, dbResponses, timelineResponse>>
  /\ UNCHANGED <<pipelineVars, toastVars, catalogVars>>

\* NotesSection.handleSave: `if (!candidateId || isSaving) return`, then
\* db.candidates.update(candidateId, {notes: noteText}) is issued.
handleSave(c, text) ==
  /\ Idle
  /\ NoteOps < MaxSaves
  /\ \A j \in InFlight : ops[j].path # "note"
  /\ ops' = StartOp([NewOp("note", c, text, "update") EXCEPT !.trigger = "call"])
  /\ UNCHANGED <<dbCandidates, dbTimeline, kanbanCache, kanbanStale,
                 listCache, listStale, running, session, ckActiveId,
                 kbActiveId, nDrags, lastEnd, apiRequest, apiResponse>>
  /\ UNCHANGED sideVars

\* db.candidates.update settles: a rejection goes to the catch block
\* ('Failed to save note'); otherwise db.timeline.add is issued. An update
\* of a key without a row resolves and writes nothing.
noteUpdateSettles(i, ok) ==
  /\ Idle
  /\ ops[i].path = "note"
  /\ ops[i].pc = "update"
  /\ IF ok
     THEN /\ dbNotes' = IF dbCandidates[ops[i].id] = NoRecord THEN dbNotes
                        ELSE [dbNotes EXCEPT ![ops[i].id] = ops[i].to]
          /\ ops' = [ops EXCEPT ![i].pc = "timelineAdd",
                                ![i].wrote = dbCandidates[ops[i].id] # NoRecord,
                                ![i].missing = dbCandidates[ops[i].id] = NoRecord]
     ELSE /\ ops' = [ops EXCEPT ![i].pc = "done", ![i].result = "error",
                                ![i].notified = TRUE, ![i].fault = TRUE]
          /\ UNCHANGED dbNotes
  /\ UNCHANGED <<dbCandidates, dbTimeline, kanbanCache, kanbanStale,
                 listCache, listStale, running, session, ckActiveId,
                 kbActiveId, nDrags, lastEnd, apiRequest, apiResponse>>
  /\ UNCHANGED <<toastVars, catalogVars, now, dbResponses, timelineResponse>>

\* The id `timeline_${Date.now()}` is taken when another note row was added
\* in the same millisecond.
noteIdFree == \A k \in 1..Len(dbTimeline) :
                ~ (dbTimeline[k].key = "timeline_" /\ dbTimeline[k].timestamp = now)

\* db.timeline.add of the note_added row settles: 'Note saved' when it
\* resolves, the catch block ('Failed to save note') when it rejects.
noteTimelineAddSettles(i, storageOk) ==
  /\ Idle
  /\ ops[i].path = "note"
  /\ ops[i].pc = "timelineAdd"
  /\ IF timelineAddAccepts(TRUE, storageOk) /\ noteIdFree
     THEN /\ dbTimeline' = Append(dbTimeline,
                 [Event(ops[i].id, "note_added", NoStage, NoStage, i)
                    EXCEPT !.key = "timeline_"])
          /\ ops' = [ops EXCEPT ![i].pc = "done", ![i].result = "ok",
                                ![i].events = @ + 1]
     ELSE /\ ops' = [ops EXCEPT ![i].pc = "done", ![i].result = "error",
                                ![i].notified = TRUE, ![i].fault = TRUE]
          /\ UNCHANGED dbTimeline
  /\ UNCHANGED <<dbCandidates, kanbanCache, kanbanStale, listCache, listStale,
                 running, session, ckActiveId, kbActiveId, nDrags, lastEnd,
                 apiRequest, apiResponse>>
  /\ UNCHANGED sideVars

\* POST /api/assessments/:jobId/submit arrives with candidateId c.
submitRequest(c) ==
  /\ Idle
  /\ SubmitOps < MaxSubmits
  /\ ops' = StartOp([NewOp("submit", c, NoStage, "network")
                       EXCEPT !.trigger = "request"])
  /\ UNCHANGED <<dbCandidates, dbTimeline, kanbanCache, kanbanStale,
                 listCache, listStale, running, session, ckActiveId,
                 kbActiveId, nDrags, lastEnd, apiRequest, apiResponse>>
  /\ UNCHANGED sideVars

\* simulateNetwork(true) settles, then db.responses.add is issued.
submitNetworkSettles(i, ok) ==
  /\ Idle
  /\ ops[i].path = "submit"
  /\ ops[i].pc = "network"
  /\ ops' = IF ok THEN [ops EXCEPT ![i].pc = "responseAdd"]
            ELSE [ops EXCEPT ![i].pc = "done", ![i].result = "error",
                             ![i].fault = TRUE]
  /\ UNCHANGED <<dbCandidates, dbTimeline, kanbanCache, kanbanStale,
                 listCache, listStale, running, session, ckActiveId,
                 kbActiveId, nDrags, lastEnd, apiRequest, apiResponse>>
  /\ UNCHANGED sideVars

\* db.responses.add(response) settles, then db.timeline.add is issued.
submitResponseAddSettles(i, ok) ==
  /\ Idle
  /\ ops[i].path = "submit"
  /\ ops[i].pc = "responseAdd"
  /\ IF ok
     THEN /\ dbResponses' = Append(dbResponses, [candidateId |-> ops[i].id, by |-> i])
          /\ ops' = [ops EXCEPT ![i].pc = "timelineAdd", ![i].wrote = TRUE]
     ELSE /\ ops' = [ops EXCEPT ![i].pc = "done", ![i].result = "error",
                                ![i].fault = TRUE]
          /\ UNCHANGED dbResponses
  /\ UNCHANGED <<dbCandidates, dbTimeline, kanbanCache, kanbanStale,
                 listCache, listStale, running, session, ckActiveId,
                 kbActiveId, nDrags, lastEnd, apiRequest, apiResponse>>
  /\ UNCHANGED <<toastVars, catalogVars, now, dbNotes, timelineResponse>>

\* db.timeline.add of the submission's row, then the 201 response.
submitTimelineAddSettles(i, storageOk) ==
  /\ Idle
  /\ ops[i].path = "submit"
  /\ ops[i].pc = "timelineAdd"
  /\ IF timelineAddAccepts(TRUE, storageOk)
     THEN /\ dbTimeline' = Append(dbTimeline,
                 Event(ops[i].id, "assessment_submitted", NoStage, NoStage, i))
          /\ ops' = [ops EXCEPT ![i].pc = "done", ![i].result = "ok",
                                ![i].events = @ + 1]
     ELSE /\ ops' = [ops EXCEPT ![i].pc = "done", ![i].result = "error",
                                ![i].fault = TRUE]
          /\ UNCHANGED dbTimeline
  /\ UNCHANGED <<dbCandidates, kanbanCache, kanbanStale, listCache, listStale,
                 running, session, ckActiveId, kbActiveId, nDrags, lastEnd,
                 apiRequest, apiResponse>>
  /\ UNCHANGED sideVars

\* The order of two rows after where(...).sortBy('timestamp'): by timestamp,
\* and rows of one timestamp in primary-key order. A `timeline_...` id sorts
\* after every UUID; two UUIDs come in either order.
sortsBefore(a, b) ==
  \/ a.timestamp < b.timestamp
  \/ /\ a.timestamp = b.timestamp
     /\ ~ (a.key = "timeline_" /\ b.key = "uuid")

\* db.timeline.where('candidateId').equals(id).sortBy('timestamp'): the
\* orders the call can return.
sortByTimestamp(id) ==
  LET rows == SelectSeq(dbTimeline, LAMBDA e : e.candidateId = id)
      n == Len(rows)
      orders == {q \in [1..n -> 1..n] :
                   /\ \A i, j \in 1..n : i # j => q[i] # q[j]
                   /\ \A i, j \in 1..n : i < j => sortsBefore(rows[q[i]], rows[q[j]])}
  IN {[k \in 1..n |-> rows[q[k]]] : q \in orders}

\* events.reverse()
reverse(list) == [k \in 1..Len(list) |-> list[Len(list) + 1 - k]]

\* GET /api/candidates/:id/timeline
getTimeline(id) ==
  /\ Idle
  /\ timelineResponse' \in {[view |-> "api", id |-> id, events |-> e] :
                              e \in sortByTimestamp(id)}
  /\ UNCHANGED <<now, dbNotes, dbResponses>>
  /\ UNCHANGED <<pipelineVars, toastVars, catalogVars>>

\* CandidateDetail's ['timeline', id] query: most recent first.
detailTimelineQuery(id) ==
  /\ Idle
  /\ timelineResponse' \in {[view |-> "detail", id |-> id, events |-> reverse(e)] :
                              e \in sortByTimestamp(id)}
  /\ UNCHANGED <<now, dbNotes, dbResponses>>
  /\ UNCHANGED <<pipelineVars, toastVars, catalogVars>>

\* ------------------------------------------------- assessments, jobs
PutOps == Cardinality({j \in 1..Len(ops) : ops[j].path = "put"})
ReorderOps == Cardinality({j \in 1..Len(ops) : ops[j].path = "reorder"})

\* db.assessments.get({ jobId }) finds a row.
hasAssessment(jobId) == \E a \in dbAssessments : a.jobId = jobId

\* db.assessments.get({ jobId }): the first row of the jobId index, rows of
\* one jobId in primary-key order.
getByJobId(jobId) ==
  LET rows == {a \in dbAssessments : a.jobId = jobId}
  IN CHOOSE a \in rows : \A b \in rows : keyRank(a.id) <= keyRank(b.id)

\* GET /api/assessments/:jobId
getAssessment(jobId) ==
  /\ Idle
  /\ assessmentResponse' =
       IF ~ hasAssessment(jobId)
       THEN [status |-> 404, jobId |-> jobId, body |-> NoRecord]
       ELSE [status |-> 200, jobId |-> jobId, body |-> getByJobId(jobId).body]
  /\ UNCHANGED <<dbAssessments, dbJobs>>
  /\ UNCHANGED <<pipelineVars, toastVars, activityVars>>

\* PUT /api/assessments/:jobId arrives with a body.
putRequest(jobId, body) ==
  /\ Idle
  /\ PutOps < MaxPuts
  /\ ops' = StartOp([NewOp("put", jobId, body, "network")
                       EXCEPT !.trigger = "request"])
  /\ UNCHANGED <<dbCandidates, dbTimeline, kanbanCache, kanbanStale,
                 listCache, listStale, running, session, ckActiveId,
                 kbActiveId, nDrags, lastEnd, apiRequest, apiResponse>>
  /\ UNCHANGED sideVars

\* simulateNetwork(true) settles; db.assessments.get({ jobId }) is issued.
putNetworkSettles(i, ok) ==
  /\ Idle
  /\ ops[i].path = "put"
  /\ ops[i].pc = "network"
  /\ ops' = IF ok THEN [ops EXCEPT ![i].pc = "get"]
            ELSE [ops EXCEPT ![i].pc = "done", ![i].result = "error",
                             ![i].fault = TRUE]
  /\ UNCHANGED <<dbCandidates, dbTimeline, kanbanCache, kanbanStale,
                 listCache, listStale, running, session, ckActiveId,
                 kbActiveId, nDrags, lastEnd, apiRequest, apiResponse>>
  /\ UNCHANGED sideVars

\* `existing` is read; update or add is issued accordingly.
putGetSettles(i) ==
  /\ Idle
  /\ ops[i].path = "put"
  /\ ops[i].pc = "get"
  /\ ops' = [ops EXCEPT ![i].pc = IF hasAssessment(ops[i].id)
                                  THEN "update" ELSE "add",
                        ![i].missing = ~ hasAssessment(ops[i].id)]
  /\ UNCHANGED <<dbCandidates, dbTimeline, kanbanCache, kanbanStale,
                 listCache, listStale, running, session, ckActiveId,
                 kbActiveId, nDrags, lastEnd, apiRequest, apiResponse>>
  /\ UNCHANGED sideVars

\* db.assessments.update(jobId, assessmentData): the first argument is the
\* primary key, and the primary key of the table is id. The rows it patches
\* are those whose id equals the jobId; a call that matches none resolves.
putUpdateSettles(i, ok) ==
  /\ Idle
  /\ ops[i].path = "put"
  /\ ops[i].pc = "update"
  /\ IF ok
     THEN /\ dbAssessments' =
               {IF a.id = ops[i].id
                THEN [a EXCEPT !.jobId = ops[i].id, !.body = ops[i].to, !.by = i]
                ELSE a : a \in dbAssessments}
          /\ ops' = [ops EXCEPT ![i].pc = "done", ![i].result = "ok",
                                ![i].wrote = \E a \in dbAssessments : a.id = ops[i].id]
     ELSE /\ ops' = [ops EXCEPT ![i].pc = "done", ![i].result = "error",
                                ![i].fault = TRUE]
          /\ UNCHANGED dbAssessments
  /\ UNCHANGED <<dbCandidates, dbTimeline, kanbanCache, kanbanStale,
                 listCache, listStale, running, session, ckActiveId,
                 kbActiveId, nDrags, lastEnd, apiRequest, apiResponse>>
  /\ UNCHANGED <<toastVars, activityVars, assessmentResponse, dbJobs>>

\* db.assessments.add(assessmentData) with id crypto.randomUUID().
putAddSettles(i, ok, uuid) ==
  /\ Idle
  /\ ops[i].path = "put"
  /\ ops[i].pc = "add"
  /\ IF ok
     THEN /\ \A a \in dbAssessments : a.id # uuid
          /\ dbAssessments' = dbAssessments \cup
               {[id |-> uuid, jobId |-> ops[i].id, body |-> ops[i].to, by |-> i]}
          /\ ops' = [ops EXCEPT ![i].pc = "done", ![i].result = "ok",
                                ![i].wrote = TRUE]
     ELSE /\ ops' = [ops EXCEPT ![i].pc = "done", ![i].result = "error",
                                ![i].fault = TRUE]
          /\ UNCHANGED dbAssessments
  /\ UNCHANGED <<dbCandidates, dbTimeline, kanbanCache, kanbanStale,
                 listCache, listStale, running, session, ckActiveId,
                 kbActiveId, nDrags, lastEnd, apiRequest, apiResponse>>
  /\ UNCHANGED <<toastVars, activityVars, assessmentResponse, dbJobs>>

\* PATCH /api/jobs/:id/reorder arrives; the client sends the job's order as
\* fromOrder.
reorderRequest(id, toOrder) ==
  /\ Idle
  /\ ReorderOps < MaxReorders
  /\ ops' = StartOp([NewOp("reorder", id, toOrder, "network")
                       EXCEPT !.from = dbJobs[id],
                              !.atCall = dbJobs,
                              !.trigger = "request"])
  /\ UNCHANGED <<dbCandidates, dbTimeline, kanbanCache, kanbanStale,
                 listCache, listStale, running, session, ckActiveId,
                 kbActiveId, nDrags, lastEnd, apiRequest, apiResponse>>
  /\ UNCHANGED sideVars

\* simulateNetwork(true) and the `Math.random() < 0.1` failure, then
\* db.jobs.get(id); db.jobs.update(id, {order: toOrder}) is issued.
reorderNetworkSettles(i, ok) ==
  /\ Idle
  /\ ops[i].path = "reorder"
  /\ ops[i].pc = "network"
  /\ ops' = IF ok THEN [ops EXCEPT ![i].pc = "update"]
            ELSE [ops EXCEPT ![i].pc = "done", ![i].result = "error",
                             ![i].fault = TRUE]
  /\ UNCHANGED <<dbCandidates, dbTimeline, kanbanCache, kanbanStale,
                 listCache, listStale, running, session, ckActiveId,
                 kbActiveId, nDrags, lastEnd, apiRequest, apiResponse>>
  /\ UNCHANGED sideVars

\* db.jobs.update(id, {order: toOrder})
reorderUpdateSettles(i, ok) ==
  /\ Idle
  /\ ops[i].path = "reorder"
  /\ ops[i].pc = "update"
  /\ IF ok
     THEN /\ dbJobs' = [dbJobs EXCEPT ![ops[i].id] = ops[i].to]
          /\ ops' = [ops EXCEPT ![i].pc = "modify", ![i].wrote = TRUE]
     ELSE /\ ops' = [ops EXCEPT ![i].pc = "done", ![i].result = "error",
                                ![i].fault = TRUE]
          /\ UNCHANGED dbJobs
  /\ UNCHANGED <<dbCandidates, dbTimeline, kanbanCache, kanbanStale,
                 listCache, listStale, running, session, ckActiveId,
                 kbActiveId, nDrags, lastEnd, apiRequest, apiResponse>>
  /\ UNCHANGED <<toastVars, activityVars, dbAssessments, assessmentResponse>>

\* where('order').between(lo, hi, true, true).modify(job => job.order += d)
modifyBetween(orders, lo, hi, d) ==
  [j \in JobIds |-> IF lo <= orders[j] /\ orders[j] <= hi
                    THEN orders[j] + d ELSE orders[j]]

\* The shift of the other jobs: down by one over [fromOrder + 1, toOrder]
\* when fromOrder < toOrder, else up by one over [toOrder, fromOrder - 1].
\* The range is evaluated on the table as update has left it.
reorderModifySettles(i, ok) ==
  /\ Idle
  /\ ops[i].path = "reorder"
  /\ ops[i].pc = "modify"
  /\ IF ok
     THEN /\ dbJobs' = IF ops[i].from < ops[i].to
                       THEN modifyBetween(dbJobs, ops[i].from + 1, ops[i].to, -1)
                       ELSE modifyBetween(dbJobs, ops[i].to, ops[i].from - 1, 1)
          /\ ops' = [ops EXCEPT ![i].pc = "done", ![i].result = "ok"]
     ELSE /\ ops' = [ops EXCEPT ![i].pc = "done", ![i].result = "error",
                                ![i].fault = TRUE]
          /\ UNCHANGED dbJobs
  /\ UNCHANGED <<dbCandidates, dbTimeline, kanbanCache, kanbanStale,
                 listCache, listStale, running, session, ckActiveId,
                 kbActiveId, nDrags, lastEnd, apiRequest, apiResponse>>
  /\ UNCHANGED <<toastVars, activityVars, dbAssessments, assessmentResponse>>

\* ------------------------------------------------------------ use-toast
TOAST_LIMIT == 1
NoToastId == 0            \* toastId === undefined
ToastTitles == {"a", "b"}

\* A list that keeps the rows after the first TOAST_LIMIT ones as well.
limitToastsKeepsAll(list) == list

\* [...].slice(0, TOAST_LIMIT)
limitToasts(list) == slice(list, 0, TOAST_LIMIT)

\* toastReducer(state, action) on state.toasts. The call of
\* addToRemoveQueueOrDismiss inside DISMISS_TOAST is in dismiss below.
toastReducer(list, action) ==
  IF action.type = "ADD_TOAST"
  THEN limitToasts(<<action.toast>> \o list)
  ELSE IF action.type = "UPDATE_TOAST"
  THEN [k \in 1..Len(list) |->
          IF list[k].id = action.toast.id
          THEN [list[k] EXCEPT !.title = action.toast.title] ELSE list[k]]
  ELSE IF action.type = "DISMISS_TOAST"
  THEN [k \in 1..Len(list) |->
          IF list[k].id = action.toastId \/ action.toastId = NoToastId
          THEN [list[k] EXCEPT !.open = FALSE] ELSE list[k]]
  ELSE IF action.type = "REMOVE_TOAST"
  THEN IF action.toastId = NoToastId THEN <<>>
       ELSE SelectSeq(list, LAMBDA t : t.id # action.toastId)
  ELSE list

\* toast(props): genId, then dispatch of ADD_TOAST with open: true.
toast(title) ==
  /\ count < MaxToasts
  /\ count' = count + 1
  /\ toasts' = toastReducer(toasts,
       [type |-> "ADD_TOAST",
        toast |-> [id |-> count + 1, open |-> TRUE, title |-> title]])
  /\ UNCHANGED toastTimeouts
  /\ UNCHANGED <<pipelineVars, activityVars, catalogVars>>

\* update(props) of the handle that toast() returned for id.
update(id, title) ==
  /\ id \in 1..count
  /\ toasts' = toastReducer(toasts,
       [type |-> "UPDATE_TOAST", toast |-> [id |-> id, title |-> title]])
  /\ UNCHANGED <<toastTimeouts, count>>
  /\ UNCHANGED <<pipelineVars, activityVars, catalogVars>>

\* dismiss(toastId): DISMISS_TOAST. addToRemoveQueueOrDismiss sets a timer
\* for the id, or for every toast of the list when no id is given, unless
\* the map already has one.
dismiss(toastId) ==
  /\ toastId \in (1..count) \cup {NoToastId}
  /\ toastTimeouts' = toastTimeouts \cup
       (IF toastId # NoToastId THEN {toastId}
        ELSE {toasts[k].id : k \in 1..Len(toasts)})
  /\ toasts' = toastReducer(toasts, [type |-> "DISMISS_TOAST", toastId |-> toastId])
  /\ UNCHANGED count
  /\ UNCHANGED <<pipelineVars, activityVars, catalogVars>>

\* The timer of addToRemoveQueueOrDismiss fires after TOAST_REMOVE_DELAY:
\* it deletes the map entry and then evaluates `dispatch`, a name the module
\* scope does not declare (dispatch is a local of ToastProvider), so the
\* callback throws a ReferenceError and no REMOVE_TOAST reaches the reducer.
timeoutFires(toastId) ==
  /\ toastId \in toastTimeouts
  /\ toastTimeouts' = toastTimeouts \ {toastId}
  /\ UNCHANGED <<toasts, count>>
  /\ UNCHANGED <<pipelineVars, activityVars, catalogVars>>

\* A REMOVE_TOAST action handed to the reducer.
removeToast(toastId) ==
  /\ toastId \in (1..count) \cup {NoToastId}
  /\ toasts' = toastReducer(toasts, [type |-> "REMOVE_TOAST", toastId |-> toastId])
  /\ UNCHANGED <<toastTimeouts, count>>
  /\ UNCHANGED <<pipelineVars, activityVars, catalogVars>>

\* ---------------------------------------------------------------- Next
Next ==
  \/ \E b \in {"ck", "kb"}, c \in CandIds : handleDragStart(b, c)
  \/ \E o \in CandIds \cup StageSet \cup {NoOver} : ckHandleDragOver(o)
  \/ \E o \in CandIds \cup StageSet \cup {NoOver} : kbHandleDragOver(o)
  \/ dragCancel
  \/ ckHandleDragEnd
  \/ kbHandleDragEnd
  \/ \E i \in 1..Len(ops) : ckOnMutate(i)
  \/ \E i \in 1..Len(ops) : ckMutationFn(i)
  \/ \E i \in 1..Len(ops), ok \in BOOLEAN : ckStoreSettles(i, ok)
  \/ \E ok \in BOOLEAN : kanbanQueryFn(ok)
  \/ \E ok \in BOOLEAN : kanbanMount(ok)
  \/ \E i \in 1..Len(ops), ok \in BOOLEAN : listUpdateSettles(i, ok)
  \/ \E i \in 1..Len(ops), ok \in BOOLEAN : listTimelineAddSettles(i, ok)
  \/ listQueryFn
  \/ \E c \in RequestIds, s \in RequestStages : moveCandidate(c, s)
  \/ \E i \in 1..Len(ops), ok \in BOOLEAN : moveSettles(i, ok)
  \/ \E c \in CandIds \ SeedIds : addCandidate(c)
  \/ \E i \in 1..Len(ops), ok \in BOOLEAN : addSettles(i, ok)
  \/ \E c \in RequestIds : deleteCandidate(c)
  \/ \E i \in 1..Len(ops), ok \in BOOLEAN : deleteSettles(i, ok)
  \/ \E c \in RequestIds, s \in RequestStages \cup {NoStage} : patchRequest(c, s)
  \/ \E i \in 1..Len(ops), ok \in BOOLEAN : patchNetworkSettles(i, ok)
  \/ \E i \in 1..Len(ops), ok \in BOOLEAN : patchTimelineAddSettles(i, ok)
  \/ \E i \in 1..Len(ops), ok \in BOOLEAN : patchUpdateSettles(i, ok)
  \/ \E s \in RequestStages \cup {NoStage} : postRequest(s)
  \/ \E i \in 1..Len(ops), ok \in BOOLEAN, c \in CandIds \ SeedIds :
       postNetworkSettles(i, ok, c)
  \/ \E i \in 1..Len(ops), ok \in BOOLEAN : postAddSettles(i, ok)
  \/ \E i \in 1..Len(ops), ok \in BOOLEAN : postTimelineAddSettles(i, ok)
  \/ \E se \in SearchTerms, st \in StageParams, j \in JobParams,
        pg \in PageParams, ps \in PageSizeParams :
       getCandidatesRequest([search |-> se, stage |-> st, jobId |-> j,
                             page |-> pg, pageSize |-> ps, sent |-> TRUE])
  \/ \E ok \in BOOLEAN : getCandidatesSettles(ok)
  \/ \E t \in ToastTitles : toast(t)
  \/ \E id \in 1..MaxToasts, t \in ToastTitles : update(id, t)
  \/ \E id \in 0..MaxToasts : dismiss(id)
  \/ \E id \in 1..MaxToasts : timeoutFires(id)
  \/ tick
  \/ \E c \in NoteIds, t \in NoteTexts : handleSave(c, t)
  \/ \E i \in 1..Len(ops), ok \in BOOLEAN : noteUpdateSettles(i, ok)
  \/ \E i \in 1..Len(ops), ok \in BOOLEAN : noteTimelineAddSettles(i, ok)
  \/ \E c \in SubmitIds : submitRequest(c)
  \/ \E i \in 1..Len(ops), ok \in BOOLEAN : submitNetworkSettles(i, ok)
  \/ \E i \in 1..Len(ops), ok \in BOOLEAN : submitResponseAddSettles(i, ok)
  \/ \E i \in 1..Len(ops), ok \in BOOLEAN : submitTimelineAddSettles(i, ok)
  \/ \E c \in TimelineIds : getTimeline(c)
  \/ \E c \in TimelineIds : detailTimelineQuery(c)
  \/ \E j \in AssessedJobs : getAssessment(j)
  \/ \E j \in AssessedJobs, b \in Bodies : putRequest(j, b)
  \/ \E i \in 1..Len(ops), ok \in BOOLEAN : putNetworkSettles(i, ok)
  \/ \E i \in 1..Len(ops) : putGetSettles(i)
  \/ \E i \in 1..Len(ops), ok \in BOOLEAN : putUpdateSettles(i, ok)
  \/ \E i \in 1..Len(ops), ok \in BOOLEAN, u \in Uuids : putAddSettles(i, ok, u)
  \/ \E j \in JobIds, t \in 1..MaxOrder : reorderRequest(j, t)
  \/ \E i \in 1..Len(ops), ok \in BOOLEAN : reorderNetworkSettles(i, ok)
  \/ \E i \in 1..Len(ops), ok \in BOOLEAN : reorderUpdateSettles(i, ok)
  \/ \E i \in 1..Len(ops), ok \in BOOLEAN : reorderModifySettles(i, ok)

Spec == Init /\ [][Next]_vars

\* The CandidatesKanban tab alone: its drags, its mutation, its refetch.
NextKanban ==
  \/ \E c \in CandIds : handleDragStart("ck", c)
  \/ \E o \in CandIds \cup {NoOver} : ckHandleDragOver(o)
  \/ dragCancel
  \/ ckHandleDragEnd
  \/ \E i \in 1..Len(ops) : ckOnMutate(i)
  \/ \E i \in 1..Len(ops) : ckMutationFn(i)
  \/ \E i \in 1..Len(ops), ok \in BOOLEAN : ckStoreSettles(i, ok)
  \/ \E ok \in BOOLEAN : kanbanQueryFn(ok)

SpecKanban == Init /\ [][NextKanban]_vars

\* The CandidatesList tab in kanban view: KanbanBoard and the list mutation.
NextBoard ==
  \/ \E c \in CandIds : handleDragStart("kb", c)
  \/ \E o \in CandIds \cup StageSet \cup {NoOver} : kbHandleDragOver(o)
  \/ dragCancel
  \/ kbHandleDragEnd
  \/ \E i \in 1..Len(ops), ok \in BOOLEAN : listUpdateSettles(i, ok)
  \/ \E i \in 1..Len(ops), ok \in BOOLEAN : listTimelineAddSettles(i, ok)
  \/ listQueryFn

SpecBoard == Init /\ [][NextBoard]_vars

\* The callers without a drag: the mock API and the useCandidates hook.
NextApi ==
  \/ \E c \in RequestIds, s \in RequestStages : moveCandidate(c, s)
  \/ \E i \in 1..Len(ops), ok \in BOOLEAN : moveSettles(i, ok)
  \/ \E c \in CandIds : addCandidate(c)
  \/ \E i \in 1..Len(ops), ok \in BOOLEAN : addSettles(i, ok)
  \/ \E c \in RequestIds, s \in RequestStages \cup {NoStage} : patchRequest(c, s)
  \/ \E i \in 1..Len(ops), ok \in BOOLEAN : patchNetworkSettles(i, ok)
  \/ \E i \in 1..Len(ops), ok \in BOOLEAN : patchTimelineAddSettles(i, ok)
  \/ \E i \in 1..Len(ops), ok \in BOOLEAN : patchUpdateSettles(i, ok)
  \/ \E s \in RequestStages \cup {NoStage} : postRequest(s)
  \/ \E i \in 1..Len(ops), ok \in BOOLEAN, c \in CandIds :
       postNetworkSettles(i, ok, c)
  \/ \E i \in 1..Len(ops), ok \in BOOLEAN : postAddSettles(i, ok)
  \/ \E i \in 1..Len(ops), ok \in BOOLEAN : postTimelineAddSettles(i, ok)
  \/ listQueryFn

SpecApi == Init /\ [][NextApi]_vars

\* The CandidatesList tab in kanban view while the hook deletes a row: the
\* board keeps showing the card until the invalidated query has refetched.
NextStale ==
  \/ \E c \in RequestIds : deleteCandidate(c)
  \/ \E i \in 1..Len(ops), ok \in BOOLEAN : deleteSettles(i, ok)
  \/ \E c \in CandIds : handleDragStart("kb", c)
  \/ \E o \in CandIds \cup StageSet \cup {NoOver} : kbHandleDragOver(o)
  \/ kbHandleDragEnd
  \/ \E i \in 1..Len(ops), ok \in BOOLEAN : listUpdateSettles(i, ok)
  \/ \E i \in 1..Len(ops), ok \in BOOLEAN : listTimelineAddSettles(i, ok)
  \/ listQueryFn

SpecStale == Init /\ [][NextStale]_vars

\* A candidate's life: created through the hook or the API, then its card
\* dragged on the CandidatesKanban board.
NextLifecycle ==
  \/ \E c \in CandIds \ SeedIds : addCandidate(c)
  \/ \E i \in 1..Len(ops), ok \in BOOLEAN : addSettles(i, ok)
  \/ postRequest("applied")
  \/ \E i \in 1..Len(ops), ok \in BOOLEAN, c \in CandIds \ SeedIds :
       postNetworkSettles(i, ok, c)
  \/ \E i \in 1..Len(ops), ok \in BOOLEAN : postAddSettles(i, ok)
  \/ \E i \in 1..Len(ops), ok \in BOOLEAN : postTimelineAddSettles(i, ok)
  \/ \E ok \in BOOLEAN : kanbanMount(ok)
  \/ \E c \in CandIds \ SeedIds : handleDragStart("ck", c)
  \/ \E o \in CandIds \cup {NoOver} : ckHandleDragOver(o)
  \/ ckHandleDragEnd
  \/ \E i \in 1..Len(ops) : ckOnMutate(i)
  \/ \E i \in 1..Len(ops) : ckMutationFn(i)
  \/ \E i \in 1..Len(ops), ok \in BOOLEAN : ckStoreSettles(i, ok)
  \/ \E ok \in BOOLEAN : kanbanQueryFn(ok)

SpecLifecycle == Init /\ [][NextLifecycle]_vars

\* GET /api/candidates against a store that the hook adds a row to.
NextGet ==
  \/ \E se \in SearchTerms, st \in StageParams, j \in JobParams,
        pg \in PageParams, ps \in PageSizeParams :
       getCandidatesRequest([search |-> se, stage |-> st, jobId |-> j,
                             page |-> pg, pageSize |-> ps, sent |-> TRUE])
  \/ \E ok \in BOOLEAN : getCandidatesSettles(ok)
  \/ \E c \in CandIds \ SeedIds : addCandidate(c)
  \/ \E i \in 1..Len(ops), ok \in BOOLEAN : addSettles(i, ok)

SpecGet == Init /\ [][NextGet]_vars

\* The timeline of one candidate: the PATCH handler and NotesSection write
\* it while the clock runs, the API and the detail view read it.
NextTimeline ==
  \/ patchRequest("c1", "hired")
  \/ \E i \in 1..Len(ops), ok \in BOOLEAN : patchNetworkSettles(i, ok)
  \/ \E i \in 1..Len(ops), ok \in BOOLEAN : patchTimelineAddSettles(i, ok)
  \/ \E i \in 1..Len(ops), ok \in BOOLEAN : patchUpdateSettles(i, ok)
  \/ tick
  \/ \E c \in NoteIds, t \in NoteTexts : handleSave(c, t)
  \/ \E i \in 1..Len(ops), ok \in BOOLEAN : noteUpdateSettles(i, ok)
  \/ \E i \in 1..Len(ops), ok \in BOOLEAN : noteTimelineAddSettles(i, ok)
  \/ \E c \in TimelineIds : getTimeline(c)
  \/ \E c \in TimelineIds : detailTimelineQuery(c)

SpecTimeline == Init /\ [][NextTimeline]_vars

\* NotesSection on its own.
NextNotes ==
  \/ tick
  \/ \E c \in NoteIds, t \in NoteTexts : handleSave(c, t)
  \/ \E i \in 1..Len(ops), ok \in BOOLEAN : noteUpdateSettles(i, ok)
  \/ \E i \in 1..Len(ops), ok \in BOOLEAN : noteTimelineAddSettles(i, ok)
  \/ \E c \in TimelineIds : getTimeline(c)

SpecNotes == Init /\ [][NextNotes]_vars

\* The submit handler next to the candidate's creation.
NextSubmit ==
  \/ postRequest("applied")
  \/ \E i \in 1..Len(ops), ok \in BOOLEAN, c \in CandIds \ SeedIds :
       postNetworkSettles(i, ok, c)
  \/ \E i \in 1..Len(ops), ok \in BOOLEAN : postAddSettles(i, ok)
  \/ \E i \in 1..Len(ops), ok \in BOOLEAN : postTimelineAddSettles(i, ok)
  \/ \E c \in SubmitIds : submitRequest(c)
  \/ \E i \in 1..Len(ops), ok \in BOOLEAN : submitNetworkSettles(i, ok)
  \/ \E i \in 1..Len(ops), ok \in BOOLEAN : submitResponseAddSettles(i, ok)
  \/ \E i \in 1..Len(ops), ok \in BOOLEAN : submitTimelineAddSettles(i, ok)

SpecSubmit == Init /\ [][NextSubmit]_vars

\* The assessment endpoints.
NextAssessments ==
  \/ \E j \in AssessedJobs : getAssessment(j)
  \/ \E j \in AssessedJobs, b \in Bodies : putRequest(j, b)
  \/ \E i \in 1..Len(ops), ok \in BOOLEAN : putNetworkSettles(i, ok)
  \/ \E i \in 1..Len(ops) : putGetSettles(i)
  \/ \E i \in 1..Len(ops), ok \in BOOLEAN : putUpdateSettles(i, ok)
  \/ \E i \in 1..Len(ops), ok \in BOOLEAN, u \in Uuids : putAddSettles(i, ok, u)

SpecAssessments == Init /\ [][NextAssessments]_vars

\* The reorder endpoint.
NextReorder ==
  \/ \E j \in JobIds, t \in 1..MaxOrder : reorderRequest(j, t)
  \/ \E i \in 1..Len(ops), ok \in BOOLEAN : reorderNetworkSettles(i, ok)
  \/ \E i \in 1..Len(ops), ok \in BOOLEAN : reorderUpdateSettles(i, ok)
  \/ \E i \in 1..Len(ops), ok \in BOOLEAN : reorderModifySettles(i, ok)

SpecReorder == Init /\ [][NextReorder]_vars

\* The toast store as the application drives it.
NextToast ==
  \/ \E t \in ToastTitles : toast(t)
  \/ \E id \in 1..MaxToasts, t \in ToastTitles : update(id, t)
  \/ \E id \in 0..MaxToasts : dismiss(id)
  \/ \E id \in 1..MaxToasts : timeoutFires(id)

SpecToast == Init /\ [][NextToast]_vars

\* A timer that has been set does fire while the page lives.
SpecToastFair ==
  SpecToast /\ \A id \in 1..MaxToasts : WF_vars(timeoutFires(id))

\* The reducer under every action type, REMOVE_TOAST included.
NextReducer ==
  \/ NextToast
  \/ \E id \in 0..MaxToasts : removeToast(id)

SpecReducer == Init /\ [][NextReducer]_vars

\* ============================================================== claims
StageChangePaths == {"kanban", "list", "move", "patch"}
Ended(i) == ops[i].result # "pending"

\* Timeline rows added by operation i.
rowsBy(i) == SelectSeq(dbTimeline, LAMBDA e : e.by = i)

\* How often the candidate with that id occurs in a list.
occurrences(list, id) == Len(SelectSeq(list, LAMBDA c : c.id = id))

\* C1: every persisted candidate has exactly one stage and it is one of the
\* six registry stages.
C1_StageInRegistry ==
  \A c \in CandIds :
    dbCandidates[c] # NoRecord => dbCandidates[c] \in StageSet

\* C2: when the store write of a CandidatesKanban stage change fails, the
\* step that handles the failure leaves the cache equal to the list as it
\* was when the change was called, writes nothing to db.candidates and adds
\* nothing to db.timeline; if no other operation overlapped the change, the
\* candidate's persisted stage is the one it had at the call.
C2_FailedChangeRestoresCache ==
  [][\A i \in 1..Len(ops) :
       (/\ ops[i].path = "kanban"
        /\ ops[i].result = "pending"
        /\ ops'[i].result = "error")
       => /\ kanbanCache' = ops[i].atCall
          /\ dbCandidates' = dbCandidates
          /\ dbTimeline' = dbTimeline
          /\ rowsBy(i) = <<>>
          /\ ops[i].overlap = {} =>
               dbCandidates'[ops[i].id] = ops[i].dbFrom]_vars

\* C2 witness: a Kanban change whose write failed after its optimistic
\* update had moved the card, with the cache back at the pre-call list.
C2_Witness ==
  \E i \in 1..Len(ops) :
    /\ ops[i].path = "kanban"
    /\ ops[i].result = "error"
    /\ ops[i].prev # <<>>
    /\ findStage(ops[i].atCall, ops[i].id) # ops[i].to
    /\ kanbanCache = ops[i].atCall
    /\ dbCandidates[ops[i].id] = ops[i].dbFrom

\* C3: two overlapping Kanban changes of different candidates, A succeeding
\* and B failing: once both are resolved A is at its target in cache and
\* store with exactly one new timeline row, B is at its original stage in
\* cache and store with none.
C3_ConcurrentIndependence ==
  \A a, b \in 1..Len(ops) :
    (/\ Len(ops) = 2
     /\ ops[a].path = "kanban" /\ ops[b].path = "kanban"
     /\ ops[a].id # ops[b].id
     /\ b \in ops[a].overlap
     /\ ops[a].result = "ok" /\ ops[b].result = "error")
    => /\ findStage(kanbanCache, ops[a].id) = ops[a].to
       /\ dbCandidates[ops[a].id] = ops[a].to
       /\ Len(rowsBy(a)) = 1
       /\ findStage(kanbanCache, ops[b].id) = ops[b].from
       /\ dbCandidates[ops[b].id] = ops[b].dbFrom
       /\ Len(rowsBy(b)) = 0

\* C4: a successful stage change from S to a different T, on any path, has
\* added exactly one timeline row for the candidate, of type stage_change
\* with metadata.from = S and metadata.to = T, and the stage is T.
C4_OneStageChangeRow ==
  \A i \in 1..Len(ops) :
    (/\ ops[i].path \in StageChangePaths
     /\ ops[i].result = "ok"
     /\ ops[i].wrote
     /\ ops[i].dbFrom # ops[i].to)
    => /\ rowsBy(i) = <<Event(ops[i].id, "stage_change",
                               ops[i].dbFrom, ops[i].to, i)>>
       /\ Len(ops) = 1 => dbCandidates[ops[i].id] = ops[i].to

\* C5: after a stage-change operation has ended, with or without an error,
\* its stage write and its timeline row have both taken effect or neither.
C5_StageWriteAndRowTogether ==
  \A i \in 1..Len(ops) :
    (/\ ops[i].path \in StageChangePaths
     /\ Ended(i)
     /\ ops[i].to # NoStage
     /\ ops[i].from # ops[i].to)
    => (ops[i].wrote <=> Len(rowsBy(i)) = 1)

\* C6: a stage change reported as failed (the error toast, or a 500 reply)
\* has not changed the candidate's persisted stage.
C6_ReportedFailureWroteNothing ==
  \A i \in 1..Len(ops) :
    (/\ ops[i].path \in StageChangePaths
     /\ ops[i].result = "error"
     /\ ops[i].notified \/ ops[i].path = "patch")
    => ~ ops[i].wrote

\* C7: a drag dropped on the candidate's current stage (its column, or a
\* card in it) has issued no store call.
C7_SameStageDropIsNoOp ==
  (lastEnd.kind = "drop" /\ lastEnd.sameStage)
  => \A i \in 1..Len(ops) : ops[i].drag # lastEnd.serial

\* C8: a store call of a drag is issued by its drop only; a drag that was
\* cancelled or released outside every drop target has issued none.
C8_StoreCallOnlyOnDrop ==
  /\ \A i \in 1..Len(ops) : ops[i].drag > 0 => ops[i].trigger = "drop"
  /\ lastEnd.kind \in {"cancel", "outside"}
       => \A i \in 1..Len(ops) : ops[i].drag # lastEnd.serial

\* C9: the target handed to the stage change by a drag is the stage that
\* owns the hovered card in the grouping view, or the hovered column's
\* stage: always a stage identifier.
C9_TargetIsOwningStage ==
  \A i \in 1..Len(ops) :
    ops[i].drag > 0 =>
      /\ ops[i].to = ops[i].targetStage
      /\ ops[i].to \in StageSet

\* The grouping of a list is complete: a key per registry stage, every
\* candidate of the list in exactly one group, once, in the list's order.
groupingComplete(list) ==
  LET groups == candidatesByStage(list)
  IN /\ DOMAIN groups = StageSet
     /\ \A k \in 1..Len(list) :
          /\ Cardinality({s \in StageSet :
                            occurrences(groups[s], list[k].id) > 0}) = 1
          /\ \A s \in StageSet : occurrences(groups[s], list[k].id) <= 1
     /\ \A s \in StageSet :
          groups[s] = SelectSeq(list, LAMBDA c : c \in
                        {groups[s][k] : k \in 1..Len(groups[s])})

\* C10: the stage grouping of the collection each Kanban view is given is
\* complete.
C10_GroupingComplete ==
  /\ groupingComplete(paginatedCandidates(kanbanCache))
  /\ groupingComplete(listCache)

\* C11: at no time are two stage-change store calls for the same candidate
\* id in flight together.
C11_OneCallPerCandidateInFlight ==
  \A i, j \in InFlight :
    (/\ i # j
     /\ ops[i].path \in StageChangePaths
     /\ ops[j].path \in StageChangePaths)
    => ops[i].id # ops[j].id

C13_UnknownIdIsNotFound ==
  \A i \in 1..Len(ops) :
    (/\ ops[i].path \in StageChangePaths
     /\ Ended(i)
     /\ ops[i].missing
     /\ ~ ops[i].fault)
    => /\ ops[i].result = "notfound"
       /\ ~ ops[i].wrote
       /\ rowsBy(i) = <<>>

\* C14: a stage-change request whose stage is outside the registry never
\* reaches a store call, and its value is never a persisted stage.
C14_InvalidStageRejected ==
  \A i \in 1..Len(ops) :
    (/\ ops[i].path \in StageChangePaths
     /\ ops[i].to \notin StageSet \cup {NoStage})
    => /\ ops[i].pc \notin {"db", "update", "timelineAdd"}
       /\ ~ ops[i].wrote
       /\ rowsBy(i) = <<>>
       /\ dbCandidates[ops[i].id] # ops[i].to

\* C15: a failed stage change of CandidatesKanban, CandidatesList or
\* useCandidates.moveCandidate has shown an error notification and its
\* rejection has not left the handler uncaught.
C15_FailureCaughtAndNotified ==
  \A i \in 1..Len(ops) :
    (/\ ops[i].path \in {"kanban", "list", "move"}
     /\ ops[i].result = "error")
    => /\ ops[i].notified
       /\ ~ ops[i].escaped

\* C16: the caller can tell an unknown id from a storage failure: a stage
\* change that addressed a missing row without any storage failure does not
\* end with the error outcome that storage failures produce, and one that
\* met a storage failure does not end with the NotFound outcome.
C16_NotFoundDistinctFromStorageFailure ==
  \A i \in 1..Len(ops) :
    (ops[i].path \in StageChangePaths /\ Ended(i))
    => /\ (ops[i].missing /\ ~ ops[i].fault) => ops[i].result # "error"
       /\ ops[i].fault => ops[i].result # "notfound"

\* C17: outside a drag session both boards are idle: activeId is null
\* whenever no drag is in progress.
C17_IdleOutsideDrag ==
  /\ ckActiveId # NoOver => (session.board = "ck" /\ session.active = ckActiveId)
  /\ kbActiveId # NoOver => (session.board = "kb" /\ session.active = kbActiveId)

\* Types of the timeline rows of one candidate, in insertion order.
typesOf(c) ==
  LET rows == SelectSeq(dbTimeline, LAMBDA e : e.candidateId = c)
  IN [k \in 1..Len(rows) |-> rows[k].type]

\* C18: a candidate created with stage applied has exactly one timeline row,
\* of type applied; after one successful CandidatesKanban drop of its card
\* on another stage its stage is that stage, its timeline is applied then
\* stage_change, and the grouping lists it under that stage only.
C18_CreateThenDropLifecycle ==
  \A i \in 1..Len(ops) :
    (/\ ops[i].path \in {"add", "post"}
     /\ ops[i].result = "ok"
     /\ ops[i].to = "applied")
    => LET c == ops[i].id
           drops == {j \in 1..Len(ops) : ops[j].path = "kanban" /\ ops[j].id = c}
       IN /\ drops = {} => typesOf(c) = <<"applied">>
          /\ \A j \in drops :
               (drops = {j} /\ ops[j].result = "ok" /\ ops[j].wrote)
               => /\ dbCandidates[c] = ops[j].to
                  /\ typesOf(c) = <<"applied", "stage_change">>
                  /\ {s \in StageSet : occurrences(ckGroups[s], c) > 0}
                       = {ops[j].to}

\* The filter of getAll as the store contract words it: a case-insensitive
\* substring match of the search term on name, email, a skill or the current
\* role, and stage equality, and job-id equality; an absent condition holds.
satisfiesFilter(c, q) ==
  LET term == toLowerCase(q.search)
      has(field) == includes(toLowerCase(field), term)
  IN /\ \/ q.search = <<>>
        \/ has(Profile[c].name)
        \/ has(Profile[c].email)
        \/ \E k \in 1..Len(Profile[c].skills) : has(Profile[c].skills[k])
        \/ has(Profile[c].currentRole)
     /\ q.stage = "" \/ dbCandidates[c] = q.stage
     /\ q.jobId = "" \/ Profile[c].jobId = q.jobId

\* The stored candidates that satisfy the filter of q, in store order.
matching(q) ==
  SelectSeq(toArray(dbCandidates), LAMBDA r : satisfiesFilter(r.id, q))

\* The step in which the GET handler answers with status 200.
Answers200 == apiResponse = NoResponse /\ apiResponse'.status = 200

\* C19: a 200 response whose first page holds the whole result lists exactly
\* the stored candidates that satisfy every supplied condition; with no
\* condition it lists every stored candidate.
C19_FilterIsConjunction ==
  [][(/\ Answers200
      /\ apiResponse'.pagination.page = 1
      /\ apiResponse'.pagination.total <= apiResponse'.pagination.pageSize)
     => apiResponse'.data = matching(apiRequest)]_vars

\* Pages 1..n of the handler's answer to q over the current store, joined.
RECURSIVE pagesJoined(_, _)
pagesJoined(q, n) ==
  IF n = 0 THEN <<>>
  ELSE pagesJoined(q, n - 1) \o
       getCandidatesResponse(toArray(dbCandidates),
                             [q EXCEPT !.page = <<Digits[n + 1]>>]).data

\* C20: in a 200 response with page >= 1 and pageSize >= 1, total is the
\* number of candidates satisfying the filters, totalPages is the least n
\* with n * pageSize >= total, data has at most pageSize rows, and pages
\* 1..totalPages joined are the satisfying candidates, each once.
C20_PaginationCoversMatches ==
  [][Answers200 =>
       LET pg == apiResponse'.pagination
           expected == matching(apiRequest)
       IN (pg.page >= 1 /\ pg.pageSize >= 1)
          => /\ pg.total = Len(expected)
             /\ pg.totalPages * pg.pageSize >= pg.total
             /\ pg.totalPages = 0 \/ (pg.totalPages - 1) * pg.pageSize < pg.total
             /\ pg.totalPages >= 0
             /\ Len(apiResponse'.data) <= pg.pageSize
             /\ pagesJoined(apiRequest, pg.totalPages) = expected]_vars

\* C25: while the store write of a CandidatesKanban stage change is issued
\* and unresolved, the optimistic snapshot has been taken and the cached
\* stage of the candidate is the target stage.
C25_OptimisticUntilResolved ==
  \A i \in 1..Len(ops) :
    (ops[i].path = "kanban" /\ ops[i].pc = "db")
    => /\ ops[i].prev # <<>>
       /\ findStage(kanbanCache, ops[i].id) = ops[i].to

\* C26: once every CandidatesKanban stage change has settled and the
\* refetch started by onSettled has completed, every cached candidate is a
\* stored candidate and its cached stage is its persisted stage.
C26_CacheConvergesToStore ==
  (/\ Idle
   /\ InFlight = {}
   /\ ~ kanbanStale
   /\ \E i \in 1..Len(ops) : ops[i].path = "kanban")
  => \A k \in 1..Len(kanbanCache) :
       /\ kanbanCache[k].id \in CandIds
       /\ dbCandidates[kanbanCache[k].id] = kanbanCache[k].stage

\* ---------------------------------------------------------- toast claims
inToasts(id) == \E k \in 1..Len(toasts) : toasts[k].id = id
dismissedInList(id) == \E k \in 1..Len(toasts) : toasts[k].id = id /\ ~ toasts[k].open

\* C29: every toast that has been dismissed (DISMISS_TOAST, open = false) is
\* eventually taken out of the list once its removal timer has elapsed.
C29_DismissedEventuallyRemoved ==
  \A id \in 1..MaxToasts : dismissedInList(id) ~> ~ inToasts(id)

\* C30: the list never holds more than TOAST_LIMIT toasts, and the step that
\* adds a toast leaves exactly the toast just created in it.
C30_AtMostLimitNewestKept ==
  /\ [](Len(toasts) <= TOAST_LIMIT)
  /\ [][count' # count
        => /\ Len(toasts') = 1
           /\ toasts'[1].id = count'
           /\ toasts'[1].open]_vars

\* A second toast has replaced an earlier one, which had been dismissed.
C30_Witness ==
  /\ count >= 2
  /\ Len(toasts) = 1
  /\ toasts[1].id = count
  /\ toasts[1].open
  /\ toastTimeouts # {}

\* ------------------------------------------------------- timeline claims
TimelineTypes == {"stage_change", "note_added", "assessment_completed", "applied"}

\* C21: a read of a candidate's timeline, by the API or by the detail view,
\* returns exactly the rows of that candidate, an earlier-created row never
\* after a later-created one (the API ascending, the detail view reversed).
C21_TimelineInCreationOrder ==
  [][\A c \in TimelineIds :
       (getTimeline(c) \/ detailTimelineQuery(c))
       => LET created == SelectSeq(dbTimeline, LAMBDA e : e.candidateId = c)
              events == timelineResponse'.events
          IN IF timelineResponse'.view = "api"
             THEN events = created
             ELSE events = reverse(created)]_vars

\* C22: every row of db.timeline has one of the four event types.
C22_TimelineTypesKnown ==
  \A k \in 1..Len(dbTimeline) : dbTimeline[k].type \in TimelineTypes

\* C27: a note save that has ended with 'Note saved' has written the note
\* and added exactly one note_added row for the candidate; one that has
\* ended with 'Failed to save note' has written neither.
C27_NoteSaveAllOrNothing ==
  \A i \in 1..Len(ops) :
    (ops[i].path = "note" /\ ops[i].pc = "done")
    => /\ ops[i].result = "ok"
          => /\ ops[i].wrote
             /\ Len(rowsBy(i)) = 1
             /\ rowsBy(i)[1].type = "note_added"
             /\ rowsBy(i)[1].candidateId = ops[i].id
       /\ ops[i].result = "error"
          => /\ ~ ops[i].wrote
             /\ rowsBy(i) = <<>>

\* ----------------------------------------------- assessment, job claims
\* C23: the assessments table never holds two rows for one jobId.
C23_OneAssessmentPerJob ==
  \A j \in JobIds : Cardinality({a \in dbAssessments : a.jobId = j}) <= 1

\* C24: when the only PUT a job has received has answered 200 with body X,
\* a GET of that job answers 200 with the content of X.
C24_GetReturnsWhatPutSaved ==
  [][\A j \in AssessedJobs :
       getAssessment(j)
       => \A i \in 1..Len(ops) :
            (/\ ops[i].path = "put"
             /\ ops[i].id = j
             /\ ops[i].result = "ok"
             /\ \A k \in 1..Len(ops) :
                  (ops[k].path = "put" /\ ops[k].id = j) => k = i)
            => /\ assessmentResponse'.status = 200
               /\ assessmentResponse'.body = ops[i].to]_vars

pairwiseDistinct(orders) ==
  \A a, b \in JobIds : a # b => orders[a] # orders[b]

\* C28: after the only reorder request has answered success, on jobs whose
\* orders were pairwise distinct when it arrived, the moved job's order is
\* toOrder, the orders are still pairwise distinct and every other pair of
\* jobs keeps its relative order.
C28_ReorderKeepsDistinctOrders ==
  \A i \in 1..Len(ops) :
    (/\ ops[i].path = "reorder"
     /\ ops[i].pc = "done"
     /\ ops[i].result = "ok"
     /\ ReorderOps = 1
     /\ pairwiseDistinct(ops[i].atCall))
    => /\ dbJobs[ops[i].id] = ops[i].to
       /\ pairwiseDistinct(dbJobs)
       /\ \A a, b \in JobIds \ {ops[i].id} :
            ops[i].atCall[a] < ops[i].atCall[b] <=> dbJobs[a] < dbJobs[b]

====
